---- MODULE Spec2Model ----
(***************************************************************************)
(* mergeRemoteSchemas of merge-remote-graphql-schemas                      *)
(* (src/src/merge-remote-schemas.ts): the merge of the type tables and     *)
(* root types of several GraphQL schemas, and the resolvers of the merged  *)
(* schema, which delegate fields to the schema that owns them.             *)
(*                                                                         *)
(* Spec      the merge pipeline of mergeRemoteSchemas over schemas drawn   *)
(*           from SchemaLib.                                               *)
(***************************************************************************)
EXTENDS Integers, Sequences, FiniteSets, TLC

\* The longest list of remote schemas passed to mergeRemoteSchemas.
MaxSchemas == 2

VARIABLES
    schemas,          \* the `schemas` argument: a sequence of source schemas
    localSchema,      \* the `localSchema` argument, or NoSchema
    pc,               \* position inside mergeRemoteSchemas
    query,            \* the merged Query root (fields still a thunk), or NoType
    mutation,         \* the merged Mutation root (fields still a thunk), or NoType
    typeNameToTypes,  \* name -> candidates, in insertion order
    newTypes,         \* the merged type table (fields still thunks), in insertion order
    cursor,           \* index of the next entry of typeNameToTypes to process
    merged,           \* the schema returned, NoSchema before, or MergeError
    operation,        \* the operation executed against the merged schema
    world,            \* what the source schemas' own resolvers return or throw
    tasks,            \* field resolutions of the merged schema not yet started
    pending,          \* delegated calls awaiting their result
    results,          \* the completed values of the response, by path
    errors,           \* the errors of the response
    calls,            \* every delegateToSchema call issued so far, in order
    coerced,          \* the last value given to a scalar of the merged schema
    reducedSchema,    \* directive-based variant: the accumulator of schemas.reduce
    rightIndex,       \* directive-based variant: the index of the next schema
    fanned,           \* root fan-out variant: the delegated calls of Promise.all
    joined            \* root fan-out variant: the promise the root resolver returns

mergeVars == <<schemas, localSchema, pc, query, mutation, typeNameToTypes,
               newTypes, cursor, merged>>
execVars == <<operation, world, tasks, pending, results, errors, calls>>
otherVars == <<coerced, reducedSchema, rightIndex, fanned, joined>>
vars == <<mergeVars, execVars, otherVars>>

-----------------------------------------------------------------------------
(* Sequences                                                               *)

Range(s) == {s[i] : i \in 1..Len(s)}

RECURSIVE SetToSortedSeq(_)
SetToSortedSeq(S) ==
    IF S = {} THEN <<>>
    ELSE LET m == CHOOSE x \in S : \A y \in S : x <= y
         IN <<m>> \o SetToSortedSeq(S \ {m})

\* The subsequence of s at the indices I, in order.
Pick(s, I) ==
    LET ix == SetToSortedSeq(I)
    IN [k \in 1..Len(ix) |-> s[ix[k]]]

RECURSIVE Flatten(_)
Flatten(ss) == IF ss = <<>> THEN <<>> ELSE Head(ss) \o Flatten(Tail(ss))

\* Insertion order of a JavaScript object's keys: the first entry of every name.
FirstByName(s) ==
    Pick(s, {i \in 1..Len(s) : \A j \in 1..(i - 1) : s[j].name # s[i].name})

HasName(s, n) == \E i \in 1..Len(s) : s[i].name = n

Lookup(s, n) == s[CHOOSE i \in 1..Len(s) : s[i].name = n]

Names(s) == [i \in 1..Len(s) |-> s[i].name]

\* obj[key] = value on a JavaScript object kept as a sequence of named entries.
Put(s, e) ==
    IF HasName(s, e.name)
    THEN [i \in 1..Len(s) |-> IF s[i].name = e.name THEN e ELSE s[i]]
    ELSE Append(s, e)

-----------------------------------------------------------------------------
(* Names as characters: String.prototype.slice and lodash's camelCase      *)

UpperSeq == <<"A","B","C","D","E","F","G","H","I","J","K","L","M",
              "N","O","P","Q","R","S","T","U","V","W","X","Y","Z">>
LowerSeq == <<"a","b","c","d","e","f","g","h","i","j","k","l","m",
              "n","o","p","q","r","s","t","u","v","w","x","y","z">>
DigitSet == {"0","1","2","3","4","5","6","7","8","9"}

IsUpper(c) == c \in Range(UpperSeq)
IsLower(c) == c \in Range(LowerSeq)
IsDigit(c) == c \in DigitSet
toLowerChar(c) ==
    IF IsUpper(c) THEN LowerSeq[CHOOSE i \in 1..26 : UpperSeq[i] = c] ELSE c
toUpperChar(c) ==
    IF IsLower(c) THEN UpperSeq[CHOOSE i \in 1..26 : LowerSeq[i] = c] ELSE c

\* The characters of every type name of the model.
NameChars(n) ==
    CASE n = "Foo" -> <<"F","o","o">>
      [] n = "Bar" -> <<"B","a","r">>
      [] n = "Baz" -> <<"B","a","z">>
      [] n = "Peer" -> <<"P","e","e","r">>
      [] n = "Both" -> <<"B","o","t","h">>
      [] n = "Color" -> <<"C","o","l","o","r">>
      [] n = "Date" -> <<"D","a","t","e">>
      [] n = "FooA" -> <<"F","o","o","A">>
      [] n = "FooB" -> <<"F","o","o","B">>
      [] n = "FooBar" -> <<"F","o","o","B","a","r">>
      [] n = "Foo_Bar" -> <<"F","o","o","_","B","a","r">>
      [] n = "URLThing" -> <<"U","R","L","T","h","i","n","g">>
      [] n = "Something" -> <<"S","o","m","e","t","h","i","n","g">>
      [] n = "UpdateFooInput" ->
            <<"U","p","d","a","t","e","F","o","o","I","n","p","u","t">>
      [] n = "Query" -> <<"Q","u","e","r","y">>
      [] n = "Mutation" -> <<"M","u","t","a","t","i","o","n">>
      [] n = "Subscription" ->
            <<"S","u","b","s","c","r","i","p","t","i","o","n">>
      [] n = "ID" -> <<"I","D">>
      [] n = "String" -> <<"S","t","r","i","n","g">>
      [] n = "Int" -> <<"I","n","t">>
      [] n = "Boolean" -> <<"B","o","o","l","e","a","n">>
      [] n = "__Schema" -> <<"_","_","S","c","h","e","m","a">>
      [] n = "__Type" -> <<"_","_","T","y","p","e">>

RECURSIVE Join(_)
Join(cs) == IF cs = <<>> THEN "" ELSE Head(cs) \o Join(Tail(cs))

\* name.slice(0, 2)
Slice2(n) == Join(SubSeq(NameChars(n), 1, IF Len(NameChars(n)) < 2 THEN Len(NameChars(n)) ELSE 2))

\* lodash words(): the end of the word that starts at cs[i] (an ASCII name):
\* a run of digits; an optional upper-case letter followed by lower-case
\* letters; a run of upper-case letters that stops before an upper-case letter
\* followed by a lower-case one.
RECURSIVE RunEnd(_, _, _)
RunEnd(cs, i, kind) ==
    IF i < Len(cs) /\ ( \/ kind = "lower" /\ IsLower(cs[i + 1])
                        \/ kind = "digit" /\ IsDigit(cs[i + 1])
                        \/ /\ kind = "upper" /\ IsUpper(cs[i + 1])
                           /\ ~(i + 1 < Len(cs) /\ IsLower(cs[i + 2])) )
    THEN RunEnd(cs, i + 1, kind)
    ELSE i

WordEnd(cs, i) ==
    IF IsDigit(cs[i]) THEN RunEnd(cs, i, "digit")
    ELSE IF IsLower(cs[i]) THEN RunEnd(cs, i, "lower")
    ELSE IF i < Len(cs) /\ IsLower(cs[i + 1]) THEN RunEnd(cs, i + 1, "lower")
    ELSE RunEnd(cs, i, "upper")

IsWordChar(c) == IsUpper(c) \/ IsLower(c) \/ IsDigit(c)

RECURSIVE words(_, _)
words(cs, i) ==
    IF i > Len(cs) THEN <<>>
    ELSE IF ~IsWordChar(cs[i]) THEN words(cs, i + 1)
    ELSE LET e == WordEnd(cs, i)
         IN <<SubSeq(cs, i, e)>> \o words(cs, e + 1)

capitalize(w) ==
    IF w = <<>> THEN w
    ELSE <<toUpperChar(w[1])>> \o [k \in 1..(Len(w) - 1) |-> toLowerChar(w[k + 1])]

\* name[0].toLowerCase() + name.slice(1)
lowerFirstOnly(n) ==
    Join(<<toLowerChar(NameChars(n)[1])>> \o Tail(NameChars(n)))

\* lodash camelCase(name)
camelCase(n) ==
    LET ws == words(NameChars(n), 1)
        lowered(w) == [k \in 1..Len(w) |-> toLowerChar(w[k])]
    IN Join(Flatten([k \in 1..Len(ws) |->
                       IF k = 1 THEN lowered(ws[k]) ELSE capitalize(ws[k])]))

-----------------------------------------------------------------------------
(* Type references, types, fields (the graphql library's typed graph)      *)

\* src: the schema whose object the reference points to ("builtin" for the
\* specified scalars, "merged" for an object built by this merge call).
Named(n, s) == [kind |-> "Named", name |-> n, src |-> s]
GraphQLList(t) == [kind |-> "List", ofType |-> t]
GraphQLNonNull(t) == [kind |-> "NonNull", ofType |-> t]

RECURSIVE getNamedType(_)
getNamedType(t) == IF t.kind = "Named" THEN t ELSE getNamedType(t.ofType)

isNonNullType(t) == t.kind = "NonNull"
isListType(t) == t.kind = "List"

ID == Named("ID", "builtin")
StringT == Named("String", "builtin")
IntT == Named("Int", "builtin")
BooleanT == Named("Boolean", "builtin")

NoType == [kind |-> "NONE"]
NoSchema == [id |-> "none"]
MergeError == [id |-> "error"]
NoOperation == [op |-> "none"]
NoCoercion == [fn |-> "none"]
NoJoin == [state |-> "none"]
NoWorld ==
    [faults |-> {}, optv |-> [k |-> "null"], nobars |-> FALSE, nofoo |-> FALSE]

Arg(n, t) == [name |-> n, type |-> t, defaultValue |-> "", description |-> ""]

\* A field of a source schema; resolve names the schema's own resolver.
Field(s, n, t, args, d) ==
    [name |-> n, type |-> t, args |-> args, description |-> d,
     deprecationReason |-> "",
     resolve |-> [kind |-> "original", schema |-> s, mergeQuery |-> ""]]

\* coercion: the serialize and parseValue a scalar type was configured with
\* ("default": those of a scalar declared in the SDL with no resolver).
NamedType(s, n, k, fields, ifaces, members, values, d) ==
    [name |-> n, kind |-> k, src |-> s, fields |-> fields, interfaces |-> ifaces,
     members |-> members, values |-> values, specified |-> FALSE,
     description |-> d, coercion |-> "default"]

ObjectType(s, n, fields, ifaces, d) ==
    NamedType(s, n, "OBJECT", fields, ifaces, <<>>, <<>>, d)
InterfaceType(s, n, fields) ==
    NamedType(s, n, "INTERFACE", fields, <<>>, <<>>, <<>>, "")
UnionType(s, n, members) ==
    NamedType(s, n, "UNION", <<>>, <<>>, members, <<>>, "")
ScalarType(s, n) == NamedType(s, n, "SCALAR", <<>>, <<>>, <<>>, <<>>, "")
EnumType(s, n, values) == NamedType(s, n, "ENUM", <<>>, <<>>, <<>>, values, "")
InputType(s, n, fields) ==
    NamedType(s, n, "INPUT_OBJECT", fields, <<>>, <<>>, <<>>, "")

isObjectType(t) == t.kind = "OBJECT"
isUnionType(t) == t.kind = "UNION"
isInterfaceType(t) == t.kind = "INTERFACE"
isScalarType(t) == t.kind = "SCALAR"
isInputObjectType(t) == t.kind = "INPUT_OBJECT"
isSpecifiedScalarType(t) == t.kind = "SCALAR" /\ t.specified

\* What every schema's getTypeMap() holds besides its own types.
BuiltinTypes ==
    << [ScalarType("builtin", "ID") EXCEPT !.specified = TRUE],
       [ScalarType("builtin", "String") EXCEPT !.specified = TRUE],
       ObjectType("builtin", "__Schema", <<>>, <<>>, ""),
       ObjectType("builtin", "__Type", <<>>, <<>>, "") >>

GraphQLSchema(id, q, m, s, types) ==
    [id |-> id, query |-> q, mutation |-> m, subscription |-> s, types |-> types]

\* schema.getTypeMap(): the root types, the schema's types, the built-ins.
getTypeMap(s) ==
    SelectSeq(<<s.query, s.mutation, s.subscription>>, LAMBDA t : t # NoType)
        \o s.types \o BuiltinTypes

-----------------------------------------------------------------------------
(* The source schemas mergeRemoteSchemas is applied to                     *)

\* fooSchema of merge-remote-schemas.spec.ts, with one nullable field, Foo.nick
SchemaA ==
    GraphQLSchema("A",
        ObjectType("A", "Query",
            << Field("A", "foo", Named("Foo", "A"), <<Arg("id", GraphQLNonNull(ID))>>, ""),
               Field("A", "foos",
                     GraphQLNonNull(GraphQLList(GraphQLNonNull(Named("Foo", "A")))),
                     <<>>, "") >>, <<>>, ""),
        ObjectType("A", "Mutation",
            << Field("A", "updateFoo", GraphQLNonNull(Named("Foo", "A")),
                     <<Arg("input", GraphQLNonNull(Named("UpdateFooInput", "A")))>>,
                     "") >>, <<>>, ""),
        NoType,
        << InputType("A", "UpdateFooInput",
               << Field("A", "id", GraphQLNonNull(ID), <<>>, ""),
                  Field("A", "name", GraphQLNonNull(StringT), <<>>, "") >>),
           InterfaceType("A", "FooB",
               << Field("A", "b", GraphQLNonNull(StringT), <<>>, "") >>),
           ObjectType("A", "Foo",
               << Field("A", "id", GraphQLNonNull(ID), <<>>, ""),
                  Field("A", "name", GraphQLNonNull(StringT), <<>>, ""),
                  Field("A", "b", GraphQLNonNull(StringT), <<>>, ""),
                  Field("A", "nick", StringT, <<>>, "") >>,
               <<Named("FooB", "A")>>, "") >>)

\* barSchema of merge-remote-schemas.spec.ts; Query.bar takes the id alone,
\* as in the cross-schema scenario
SchemaB ==
    GraphQLSchema("B",
        ObjectType("B", "Query",
            << Field("B", "bar", Named("Bar", "B"),
                     <<Arg("id", GraphQLNonNull(ID))>>, ""),
               Field("B", "foo", Named("Foo", "B"), <<Arg("id", GraphQLNonNull(ID))>>, "")
            >>, <<>>, ""),
        NoType,
        NoType,
        << UnionType("B", "Both", <<Named("Foo", "B"), Named("Bar", "B")>>),
           InterfaceType("B", "Something",
               << Field("B", "id", GraphQLNonNull(ID), <<>>, ""),
                  Field("B", "bar", GraphQLNonNull(Named("Bar", "B")), <<>>, "") >>),
           ObjectType("B", "Bar",
               << Field("B", "id", GraphQLNonNull(ID), <<>>, ""),
                  Field("B", "foo", GraphQLNonNull(Named("Foo", "B")), <<>>, ""),
                  Field("B", "date", GraphQLNonNull(Named("Date", "B")), <<>>, "") >>,
               <<>>, ""),
           InterfaceType("B", "FooA",
               << Field("B", "a", GraphQLNonNull(StringT), <<>>, "") >>),
           ObjectType("B", "Foo",
               << Field("B", "id", GraphQLNonNull(ID), <<>>, ""),
                  Field("B", "bars",
                        GraphQLNonNull(GraphQLList(GraphQLNonNull(Named("Bar", "B")))),
                        <<>>, ""),
                  Field("B", "a", GraphQLNonNull(StringT), <<>>, "") >>,
               <<Named("FooA", "B")>>, ""),
           [ScalarType("B", "Date") EXCEPT !.coercion = "GraphQLDate"] >>)

\* A schema whose Foo, Bar and root fields collide with those of A and B
\* under other types and arguments, and that has a Subscription root.
SchemaC ==
    GraphQLSchema("C",
        ObjectType("C", "Query",
            << Field("C", "foo", GraphQLList(Named("Foo", "C")), <<>>, "foo of C"),
               Field("C", "bar", Named("Bar", "C"),
                     <<Arg("key", StringT)>>, "") >>, <<>>, "root of C"),
        NoType,
        ObjectType("C", "Subscription",
            << Field("C", "fooChanged", Named("Foo", "C"), <<>>, "") >>, <<>>, ""),
        << ObjectType("C", "Foo",
               << Field("C", "name", GraphQLList(StringT),
                        <<Arg("upper", BooleanT)>>, "name of C"),
                  Field("C", "id", StringT, <<>>, ""),
                  Field("C", "c", IntT, <<>>, "") >>,
               <<>>, "Foo of C"),
           ObjectType("C", "Bar",
               << Field("C", "id", GraphQLList(ID), <<>>, "") >>, <<>>, "") >>)

\* A schema that shares no type name and no root field with the others.
SchemaD ==
    GraphQLSchema("D",
        ObjectType("D", "Query",
            << Field("D", "bazs",
                     GraphQLNonNull(GraphQLList(GraphQLNonNull(Named("Baz", "D")))),
                     <<>>, "") >>, <<>>, ""),
        ObjectType("D", "Mutation",
            << Field("D", "addBaz", Named("Baz", "D"),
                     <<Arg("label", StringT)>>, "") >>, <<>>, ""),
        NoType,
        << ObjectType("D", "Baz",
               << Field("D", "id", GraphQLNonNull(ID), <<>>, ""),
                  Field("D", "label", StringT, <<>>, ""),
                  Field("D", "color", Named("Color", "D"), <<>>, ""),
                  Field("D", "peers", GraphQLList(Named("Peer", "D")), <<>>, ""),
                  Field("D", "buddy", Named("Peer", "D"), <<>>, "") >>,
               <<>>, ""),
           ObjectType("D", "Peer",
               << Field("D", "id", GraphQLNonNull(ID), <<>>, ""),
                  Field("D", "label", StringT, <<>>, "") >>,
               <<>>, ""),
           EnumType("D", "Color", <<"RED", "GREEN">>) >>)

\* A schema whose Foo is a scalar, and whose Both and Something are
\* non-Object types of another kind or shape than those of B.
SchemaK ==
    GraphQLSchema("K",
        ObjectType("K", "Query",
            << Field("K", "k", Named("Foo", "K"), <<>>, "") >>, <<>>, ""),
        NoType,
        NoType,
        << ScalarType("K", "Foo"),
           EnumType("K", "Both", <<"X", "Y">>),
           InterfaceType("K", "Something",
               << Field("K", "id", GraphQLNonNull(ID), <<>>, "") >>) >>)

\* A schema that shares only non-Object type names with B, and whose object
\* types have names of several words.
SchemaE ==
    GraphQLSchema("E",
        ObjectType("E", "Query",
            << Field("E", "color", Named("Both", "E"), <<>>, ""),
               Field("E", "urlThing", Named("URLThing", "E"),
                     <<Arg("id", GraphQLNonNull(ID))>>, "") >>, <<>>, ""),
        NoType,
        NoType,
        << EnumType("E", "Both", <<"X", "Y">>),
           InterfaceType("E", "Something",
               << Field("E", "id", GraphQLNonNull(ID), <<>>, "") >>),
           ObjectType("E", "URLThing",
               << Field("E", "id", GraphQLNonNull(ID), <<>>, ""),
                  Field("E", "fooBar", Named("FooBar", "E"), <<>>, ""),
                  Field("E", "foo_Bar", Named("Foo_Bar", "E"), <<>>, "") >>,
               <<>>, ""),
           ObjectType("E", "FooBar",
               << Field("E", "id", GraphQLNonNull(ID), <<>>, "") >>, <<>>, ""),
           ObjectType("E", "Foo_Bar",
               << Field("E", "id", GraphQLNonNull(ID), <<>>, "") >>, <<>>, "") >>)

\* A schema with a field whose type is a root type: Query.feed is of the
\* schema's Subscription type, whose only field is of a built-in scalar.
SchemaS ==
    GraphQLSchema("S",
        ObjectType("S", "Query",
            << Field("S", "feed", Named("Subscription", "S"), <<>>, "") >>,
            <<>>, ""),
        NoType,
        ObjectType("S", "Subscription",
            << Field("S", "ticks", IntT, <<>>, "") >>, <<>>, ""),
        <<>>)

\* A schema that names its one root explicitly, schema { query: Query }, and
\* declares an ordinary object type that happens to be called Mutation:
\* getMutationType() is undefined and the type map holds Mutation.
SchemaM ==
    GraphQLSchema("M",
        ObjectType("M", "Query",
            << Field("M", "change", Named("Mutation", "M"), <<>>, "") >>,
            <<>>, ""),
        NoType,
        NoType,
        << ObjectType("M", "Mutation",
               << Field("M", "id", GraphQLNonNull(ID), <<>>, "") >>, <<>>, "") >>)

SchemaLib ==
    {SchemaA, SchemaB, SchemaC, SchemaD, SchemaK, SchemaE, SchemaS, SchemaM}

\* astNode.directives of a type or of a field, in the directive-based variant.
Directive(n, q) == [name |-> n, query |-> q]
WithDirectives(x, ds) == x @@ [directives |-> ds]
DirectivesOf(x) == IF "directives" \in DOMAIN x THEN x.directives ELSE <<>>
HasDirective(x, n) == \E d \in Range(DirectivesOf(x)) : d.name = n
Merge(q) == <<Directive("merge", q)>>
Discard == <<Directive("discard", "")>>

\* The foo service with directives: Foo.nick is declared for the service's
\* own use and discarded.
SchemaP ==
    GraphQLSchema("P",
        ObjectType("P", "Query",
            << Field("P", "foo", Named("Foo", "P"), <<Arg("id", GraphQLNonNull(ID))>>, "")
            >>, <<>>, ""),
        ObjectType("P", "Mutation",
            << Field("P", "updateFoo", GraphQLNonNull(Named("Foo", "P")),
                     <<Arg("input", GraphQLNonNull(Named("UpdateFooInput", "P")))>>,
                     "") >>, <<>>, ""),
        NoType,
        << InputType("P", "UpdateFooInput",
               << Field("P", "id", GraphQLNonNull(ID), <<>>, ""),
                  Field("P", "name", GraphQLNonNull(StringT), <<>>, "") >>),
           WithDirectives(
               ObjectType("P", "Foo",
                   << Field("P", "id", GraphQLNonNull(ID), <<>>, ""),
                      Field("P", "name", GraphQLNonNull(StringT), <<>>, ""),
                      WithDirectives(Field("P", "nick", StringT, <<>>, ""), Discard) >>,
                   <<>>, ""),
               Merge("foo")) >>)

\* The bar service with directives: its Foo.id and its Query.foo are there
\* to link Foo to the foo service, and discarded.
SchemaQ ==
    GraphQLSchema("Q",
        ObjectType("Q", "Query",
            << Field("Q", "bar", Named("Bar", "Q"),
                     <<Arg("id", GraphQLNonNull(ID))>>, ""),
               WithDirectives(
                   Field("Q", "foo", Named("Foo", "Q"),
                         <<Arg("id", GraphQLNonNull(ID))>>, ""), Discard) >>,
            <<>>, ""),
        NoType,
        NoType,
        << ObjectType("Q", "Bar",
               << Field("Q", "id", GraphQLNonNull(ID), <<>>, ""),
                  Field("Q", "foo", GraphQLNonNull(Named("Foo", "Q")), <<>>, "") >>,
               <<>>, ""),
           WithDirectives(
               ObjectType("Q", "Foo",
                   << WithDirectives(Field("Q", "id", GraphQLNonNull(ID), <<>>, ""),
                                     Discard),
                      Field("Q", "bars",
                            GraphQLNonNull(GraphQLList(GraphQLNonNull(Named("Bar", "Q")))),
                            <<>>, "") >>,
                   <<>>, ""),
               Merge("foo")) >>)

\* The bar service with a Foo that carries no @merge and discards nothing.
SchemaR ==
    GraphQLSchema("R",
        ObjectType("R", "Query",
            << Field("R", "bar", Named("Bar", "R"),
                     <<Arg("id", GraphQLNonNull(ID))>>, "") >>, <<>>, ""),
        NoType,
        NoType,
        << ObjectType("R", "Bar",
               << Field("R", "id", GraphQLNonNull(ID), <<>>, ""),
                  Field("R", "foo", GraphQLNonNull(Named("Foo", "R")), <<>>, "") >>,
               <<>>, ""),
           ObjectType("R", "Foo",
               << Field("R", "id", GraphQLNonNull(ID), <<>>, ""),
                  Field("R", "bars",
                        GraphQLNonNull(GraphQLList(GraphQLNonNull(Named("Bar", "R")))),
                        <<>>, "") >>,
               <<>>, "") >>)

DirectiveLib == {SchemaP, SchemaQ, SchemaR, SchemaD}

\* The sequences over S of length 1..n.
RECURSIVE SeqsUpTo(_, _)
SeqsUpTo(S, n) ==
    IF n = 0 THEN {<<>>}
    ELSE LET shorter == SeqsUpTo(S, n - 1)
         IN shorter \cup {Append(q, x) : q \in shorter, x \in S}

-----------------------------------------------------------------------------
(* The merge: src/src/merge-remote-schemas.ts                              *)

RECURSIVE createFieldType(_, _)
createFieldType(type, nt) ==
    IF isNonNullType(type) THEN GraphQLNonNull(createFieldType(type.ofType, nt))
    ELSE IF isListType(type) THEN GraphQLList(createFieldType(type.ofType, nt))
    ELSE Named(Lookup(nt, type.name).name, "merged")

RECURSIVE createInputFieldType(_, _)
createInputFieldType(type, nt) ==
    IF isNonNullType(type) THEN GraphQLNonNull(createInputFieldType(type.ofType, nt))
    ELSE IF isListType(type) THEN GraphQLList(createInputFieldType(type.ofType, nt))
    ELSE Named(Lookup(nt, type.name).name, "merged")

createArgumentConfig(args, nt) ==
    [i \in 1..Len(args) |->
        [name |-> args[i].name,
         type |-> IF HasName(nt, getNamedType(args[i].type).name)
                  THEN createInputFieldType(args[i].type, nt)
                  ELSE args[i].type,
         defaultValue |-> args[i].defaultValue,
         description |-> args[i].description]]

\* JavaScript truthiness of a candidate's attribute: a type object and an
\* array (args) are always truthy, a string is unless it is empty or undefined.
IsTruthy(attribute, value) ==
    IF attribute \in {"description", "deprecationReason", "name"}
    THEN value # ""
    ELSE TRUE

\* Mutant of getCandidateAttribute: an empty argument list counts as no value.
getCandidateAttributeNonEmpty(candidates, attribute) ==
    LET attributes ==
            SelectSeq([i \in 1..Len(candidates) |-> candidates[i][attribute]],
                      LAMBDA value : IF attribute = "args" THEN value # <<>>
                                     ELSE IsTruthy(attribute, value))
    IN IF attributes = <<>> THEN candidates[1][attribute] ELSE attributes[1]

getCandidateAttribute(candidates, attribute) ==
    LET attributes ==
            SelectSeq([i \in 1..Len(candidates) |-> candidates[i][attribute]],
                      LAMBDA value : IsTruthy(attribute, value))
    IN IF attributes = <<>> THEN "" ELSE attributes[1]

\* The closure createRootResolver returns: the schema it delegates to.
createRootResolver(schema) ==
    [kind |-> "root", schema |-> schema, mergeQuery |-> ""]

\* Mutant of createFieldResolver: a closure that was given no entry point.
createFieldResolverNoEntryPoint(schema, mergeQuery) ==
    [kind |-> "delegate", schema |-> schema, mergeQuery |-> ""]

\* The closure createFieldResolver returns: the owning schema and mergeQuery.
createFieldResolver(schema, mergeQuery) ==
    [kind |-> "delegate", schema |-> schema, mergeQuery |-> mergeQuery]

\* The {schema, field, replaceResolvers} of every field of every candidate,
\* candidate after candidate.
CandidateFields(types) ==
    Flatten([i \in 1..Len(types) |->
        [k \in 1..Len(types[i].type.fields) |->
            [name |-> types[i].type.fields[k].name,
             schema |-> types[i].schema,
             field |-> types[i].type.fields[k],
             replaceResolvers |-> types[i].replaceResolvers]]])

\* Mutant of RegisterFields: a later candidate overwrites the key.
RegisterFieldsLastWins(types) ==
    LET all == CandidateFields(types)
    IN Pick(all, {i \in 1..Len(all) :
                    \A j \in (i + 1)..Len(all) : all[j].name # all[i].name})

\* lines 191-197: the first candidate to declare a key keeps it.
RegisterFields(types) == FirstByName(CandidateFields(types))

createFieldMapConfig(types, nt, mergeQuery) ==
    LET fields == RegisterFields(types)
    IN [i \in 1..Len(fields) |->
        LET field == fields[i].field
        IN [name |-> fields[i].name,
            type |-> IF HasName(nt, getNamedType(field.type).name)
                     THEN createFieldType(field.type, nt)
                     ELSE field.type,
            args |-> createArgumentConfig(field.args, nt),
            resolve |-> IF fields[i].replaceResolvers
                        THEN createFieldResolver(fields[i].schema, mergeQuery)
                        ELSE field.resolve,
            deprecationReason |-> field.deprecationReason,
            description |-> field.description]]

\* lines 129-136: fields[key], the {schema, field} of every candidate that
\* declares key, in candidate order.
RootFieldCandidates(types, key) ==
    SelectSeq(CandidateFields(types), LAMBDA f : f.name = key)

\* Mutant of RootFieldOwner: the last schema that declares the root field.
RootFieldOwnerLast(types, key) ==
    RootFieldCandidates(types, key)[Len(RootFieldCandidates(types, key))].schema

\* schemas[0] of line 153: the schema the root field is bound to.
RootFieldOwner(types, key) == RootFieldCandidates(types, key)[1].schema

createRootFieldMapConfig(types, nt) ==
    LET keys == Names(FirstByName(CandidateFields(types)))
    IN [i \in 1..Len(keys) |->
        LET fieldAndSchema == RootFieldCandidates(types, keys[i])
            fieldCandidates ==
                [k \in 1..Len(fieldAndSchema) |-> fieldAndSchema[k].field]
            fieldType == getCandidateAttribute(fieldCandidates, "type")
        IN [name |-> keys[i],
            type |-> IF HasName(nt, getNamedType(fieldType).name)
                     THEN createFieldType(fieldType, nt)
                     ELSE fieldType,
            args |-> createArgumentConfig(
                        getCandidateAttribute(fieldCandidates, "args"), nt),
            resolve |-> createRootResolver(RootFieldOwner(types, keys[i])),
            deprecationReason |->
                getCandidateAttribute(fieldCandidates, "deprecationReason"),
            description |->
                getCandidateAttribute(fieldCandidates, "description")]]

\* Mutant of mergeInterfaces: the interfaces of the first candidate alone.
mergeInterfacesFirst(types, nt) ==
    [i \in 1..Len(types[1].interfaces) |->
        IF HasName(nt, types[1].interfaces[i].name)
        THEN Named(types[1].interfaces[i].name, "merged")
        ELSE types[1].interfaces[i]]

\* Mutant of mergeInterfaces: every candidate's interfaces, repeated ones too.
mergeInterfacesRepeated(types, nt) ==
    LET all == Flatten([i \in 1..Len(types) |-> types[i].interfaces])
    IN [i \in 1..Len(all) |->
        IF HasName(nt, all[i].name) THEN Named(all[i].name, "merged") ELSE all[i]]

mergeInterfaces(types, nt) ==
    LET all == Flatten([i \in 1..Len(types) |-> types[i].interfaces])
        interfaceMap == FirstByName(all)
    IN [i \in 1..Len(interfaceMap) |->
        IF HasName(nt, interfaceMap[i].name)
        THEN Named(interfaceMap[i].name, "merged")
        ELSE interfaceMap[i]]

\* A type object under construction: its fields, interfaces and members are
\* thunks over `candidates`, evaluated by the GraphQLSchema constructor.
Thunk(n, how, candidates, mergeQuery, d) ==
    [name |-> n, thunk |-> how, candidates |-> candidates,
     mergeQuery |-> mergeQuery, description |-> d]

CandidateTypes(types) == [i \in 1..Len(types) |-> types[i].type]

mergeObjectTypes(types) ==
    Thunk(getCandidateAttribute(CandidateTypes(types), "name"), "object", types,
          camelCase(types[1].type.name),
          getCandidateAttribute(CandidateTypes(types), "description"))

\* Mutant of mergeRootTypes: the root type of the first source alone.
mergeRootTypesFirst(types) ==
    IF Len(types) = 0 THEN NoType
    ELSE Thunk(types[1].type.name, "root", <<types[1]>>, "",
               types[1].type.description)

mergeRootTypes(types) ==
    IF Len(types) = 0 THEN NoType
    ELSE Thunk(getCandidateAttribute(CandidateTypes(types), "name"), "root", types,
               "", getCandidateAttribute(CandidateTypes(types), "description"))

recreateUnionType(type, nt) ==
    [type EXCEPT !.src = "merged",
                 !.members = [i \in 1..Len(type.members) |->
                                 IF HasName(nt, type.members[i].name)
                                 THEN Named(type.members[i].name, "merged")
                                 ELSE type.members[i]]]

NoResolver == [kind |-> "none", schema |-> "", mergeQuery |-> ""]

recreateInterfaceFieldMap(fields, nt) ==
    [i \in 1..Len(fields) |->
        [name |-> fields[i].name,
         type |-> IF HasName(nt, getNamedType(fields[i].type).name)
                  THEN createFieldType(fields[i].type, nt)
                  ELSE fields[i].type,
         args |-> createArgumentConfig(fields[i].args, nt),
         resolve |-> NoResolver,
         deprecationReason |-> fields[i].deprecationReason,
         description |-> fields[i].description]]

recreateInterfaceType(type, nt) ==
    [type EXCEPT !.src = "merged",
                 !.fields = recreateInterfaceFieldMap(type.fields, nt)]

\* Mutant of recreateScalarType: the original's serialize and parseValue.
recreateScalarTypeCopied(type) == [type EXCEPT !.src = "merged"]

\* lines 356-371: serialize and parseValue return their argument.
recreateScalarType(type) ==
    [type EXCEPT !.src = "merged", !.coercion = "identity"]

inputFieldMapToFieldConfigMap(fields, nt) ==
    [i \in 1..Len(fields) |->
        [fields[i] EXCEPT
            !.type = IF HasName(nt, getNamedType(fields[i].type).name)
                     THEN createInputFieldType(fields[i].type, nt)
                     ELSE fields[i].type,
            !.resolve = NoResolver]]

recreateInputType(type, nt) ==
    [type EXCEPT !.src = "merged",
                 !.fields = inputFieldMapToFieldConfigMap(type.fields, nt)]

isTypeToInclude(type) ==
    /\ type.name # "Query"
    /\ type.name # "Mutation"
    /\ type.name # "Subscription"
    /\ Slice2(type.name) # "__"
    /\ (~isScalarType(type) \/ (isScalarType(type) /\ ~isSpecifiedScalarType(type)))

\* line 498
AllSchemas(ss, local) == IF local # NoSchema THEN <<local>> \o ss ELSE ss

\* lines 500-520: the {schema, type} of the schemas that define the root.
RootCandidates(ss, local, root) ==
    LET all == AllSchemas(ss, local)
    IN SelectSeq([i \in 1..Len(all) |->
                     [schema |-> all[i].id, type |-> all[i][root],
                      replaceResolvers |-> FALSE]],
                 LAMBDA argument : argument.type # NoType)

\* Mutant of TypeMapEntries: the local schema's types are registered like
\* those of a remote schema.
TypeMapEntriesAllReplaced(ss, local) ==
    LET entries(s, replace) ==
            [k \in 1..Len(getTypeMap(s)) |->
                [name |-> getTypeMap(s)[k].name, schema |-> s.id,
                 type |-> getTypeMap(s)[k], replaceResolvers |-> replace]]
    IN (IF local # NoSchema THEN entries(local, TRUE) ELSE <<>>)
        \o Flatten([i \in 1..Len(ss) |-> entries(ss[i], TRUE)])

\* Mutant of TypeMapEntries: the local schema's entries come after those of
\* the remote schemas.
TypeMapEntriesLocalLast(ss, local) ==
    LET entries(s, replace) ==
            [k \in 1..Len(getTypeMap(s)) |->
                [name |-> getTypeMap(s)[k].name, schema |-> s.id,
                 type |-> getTypeMap(s)[k], replaceResolvers |-> replace]]
    IN Flatten([i \in 1..Len(ss) |-> entries(ss[i], TRUE)])
        \o (IF local # NoSchema THEN entries(local, FALSE) ELSE <<>>)

\* lines 522-542: every entry of every type map, the local schema's first.
TypeMapEntries(ss, local) ==
    LET entries(s, replace) ==
            [k \in 1..Len(getTypeMap(s)) |->
                [name |-> getTypeMap(s)[k].name, schema |-> s.id,
                 type |-> getTypeMap(s)[k], replaceResolvers |-> replace]]
    IN (IF local # NoSchema THEN entries(local, FALSE) ELSE <<>>)
        \o Flatten([i \in 1..Len(ss) |-> entries(ss[i], TRUE)])

BuildTypeNameToTypes(ss, local) ==
    LET all == TypeMapEntries(ss, local)
        keys == Names(FirstByName(all))
    IN [i \in 1..Len(keys) |->
        [name |-> keys[i],
         candidates |-> SelectSeq(all, LAMBDA e : e.name = keys[i])]]

\* Mutant of ProcessCandidates: the kind of the first candidate decides alone.
ProcessCandidatesFirstKind(candidates, nt) ==
    IF \A i \in 1..Len(candidates) : isTypeToInclude(candidates[i].type)
    THEN IF isObjectType(candidates[1].type)
         THEN [threw |-> FALSE,
               newTypes |-> Put(nt, [name |-> candidates[1].type.name,
                                     thunk |-> "asis",
                                     candidates |-> <<candidates[1]>>,
                                     mergeQuery |-> "",
                                     description |-> ""])]
         ELSE [threw |-> FALSE,
               newTypes |-> Put(nt, [name |-> candidates[1].type.name,
                                     thunk |-> "asis",
                                     candidates |-> <<candidates[1]>>,
                                     mergeQuery |-> "",
                                     description |-> ""])]
    ELSE [threw |-> FALSE, newTypes |-> nt]

\* Mutant of ProcessCandidates: a non-Object type is recreated from the last
\* candidate.
ProcessCandidatesLast(candidates, nt) ==
    IF \A i \in 1..Len(candidates) : isTypeToInclude(candidates[i].type)
    THEN IF \A i \in 1..Len(candidates) : isObjectType(candidates[i].type)
         THEN [threw |-> FALSE, newTypes |-> Put(nt, mergeObjectTypes(candidates))]
         ELSE IF \E i \in 1..Len(candidates) : isObjectType(candidates[i].type)
         THEN [threw |-> TRUE, newTypes |-> nt]
         ELSE LET type == candidates[Len(candidates)].type
                  how == IF isUnionType(type) THEN "union"
                         ELSE IF isInterfaceType(type) THEN "interface"
                         ELSE IF isScalarType(type) THEN "scalar"
                         ELSE IF isInputObjectType(type) THEN "input"
                         ELSE "asis"
              IN [threw |-> FALSE,
                  newTypes |-> Put(nt, Thunk(type.name, how,
                                             <<candidates[Len(candidates)]>>,
                                             "", type.description))]
    ELSE [threw |-> FALSE, newTypes |-> nt]

\* lines 545-572: one turn of the loop over Object.values(typeNameToTypes).
\* threw: the type-kind conflict error of line 554.
ProcessCandidates(candidates, nt) ==
    IF \A i \in 1..Len(candidates) : isTypeToInclude(candidates[i].type)
    THEN IF \A i \in 1..Len(candidates) : isObjectType(candidates[i].type)
         THEN [threw |-> FALSE, newTypes |-> Put(nt, mergeObjectTypes(candidates))]
         ELSE IF \E i \in 1..Len(candidates) : isObjectType(candidates[i].type)
         THEN [threw |-> TRUE, newTypes |-> nt]
         ELSE LET type == candidates[1].type
                  how == IF isUnionType(type) THEN "union"
                         ELSE IF isInterfaceType(type) THEN "interface"
                         ELSE IF isScalarType(type) THEN "scalar"
                         ELSE IF isInputObjectType(type) THEN "input"
                         ELSE "asis"
              IN [threw |-> FALSE,
                  newTypes |-> Put(nt, Thunk(type.name, how, <<candidates[1]>>,
                                             "", type.description))]
    ELSE [threw |-> FALSE, newTypes |-> nt]

\* The GraphQLSchema constructor calls the thunks of a type: nt is the merged
\* type table as it is then.
ForceType(t, nt) ==
    IF t = NoType THEN NoType
    ELSE IF t.thunk = "object"
    THEN NamedType("merged", t.name, "OBJECT",
                   createFieldMapConfig(t.candidates, nt, t.mergeQuery),
                   mergeInterfaces(CandidateTypes(t.candidates), nt),
                   <<>>, <<>>, t.description)
    ELSE IF t.thunk = "root"
    THEN NamedType("merged", t.name, "OBJECT",
                   createRootFieldMapConfig(t.candidates, nt),
                   <<>>, <<>>, <<>>, t.description)
    ELSE IF t.thunk = "union" THEN recreateUnionType(t.candidates[1].type, nt)
    ELSE IF t.thunk = "interface" THEN recreateInterfaceType(t.candidates[1].type, nt)
    ELSE IF t.thunk = "scalar" THEN recreateScalarType(t.candidates[1].type)
    ELSE IF t.thunk = "input" THEN recreateInputType(t.candidates[1].type, nt)
    ELSE t.candidates[1].type

\* Mutant of NewGraphQLSchema: the field maps of the roots are evaluated when
\* the roots are built, the merged type table being empty.
NewGraphQLSchemaEagerRoots(q, m, nt) ==
    GraphQLSchema("merged", ForceType(q, <<>>), ForceType(m, <<>>), NoType,
                  [i \in 1..Len(nt) |-> ForceType(nt[i], nt)])

\* lines 575-579: new GraphQLSchema({query, mutation, types}).
NewGraphQLSchema(q, m, nt) ==
    GraphQLSchema("merged", ForceType(q, nt), ForceType(m, nt), NoType,
                  [i \in 1..Len(nt) |-> ForceType(nt[i], nt)])

-----------------------------------------------------------------------------
(* mergeRemoteSchemas, step by step                                        *)

TypeOK ==
    /\ pc \in {"roots", "index", "types", "done", "failed"}
    /\ Len(schemas) \in 1..MaxSchemas
    /\ cursor \in 1..(Len(typeNameToTypes) + 1)

Init ==
    /\ schemas \in SeqsUpTo(SchemaLib, MaxSchemas) \ {<<>>}
    /\ localSchema \in SchemaLib \cup {NoSchema}
    /\ pc = "roots"
    /\ query = NoType
    /\ mutation = NoType
    /\ typeNameToTypes = <<>>
    /\ newTypes = <<>>
    /\ cursor = 1
    /\ merged = NoSchema
    /\ operation = NoOperation
    /\ world = NoWorld
    /\ tasks = <<>>
    /\ pending = {}
    /\ results = {}
    /\ errors = {}
    /\ calls = <<>>
    /\ coerced = NoCoercion
    /\ reducedSchema = NoSchema
    /\ rightIndex = 1
    /\ fanned = <<>>
    /\ joined = NoJoin

\* lines 496-520
MergeRoots ==
    /\ pc = "roots"
    /\ query' = mergeRootTypes(RootCandidates(schemas, localSchema, "query"))
    /\ mutation' = mergeRootTypes(RootCandidates(schemas, localSchema, "mutation"))
    /\ pc' = "index"
    /\ UNCHANGED <<schemas, localSchema, typeNameToTypes, newTypes, cursor, merged>>
    /\ UNCHANGED execVars
    /\ UNCHANGED otherVars

\* lines 522-542
IndexTypes ==
    /\ pc = "index"
    /\ typeNameToTypes' = BuildTypeNameToTypes(schemas, localSchema)
    /\ pc' = "types"
    /\ UNCHANGED <<schemas, localSchema, query, mutation, newTypes, cursor, merged>>
    /\ UNCHANGED execVars
    /\ UNCHANGED otherVars

\* lines 544-573, one candidate list
MergeOrRecreate ==
    /\ pc = "types"
    /\ cursor <= Len(typeNameToTypes)
    /\ LET r == ProcessCandidates(typeNameToTypes[cursor].candidates, newTypes)
       IN /\ newTypes' = r.newTypes
          /\ pc' = IF r.threw THEN "failed" ELSE "types"
          /\ merged' = IF r.threw THEN MergeError ELSE merged
    /\ cursor' = cursor + 1
    /\ UNCHANGED <<schemas, localSchema, query, mutation, typeNameToTypes>>
    /\ UNCHANGED execVars
    /\ UNCHANGED otherVars

\* lines 575-579
ReturnSchema ==
    /\ pc = "types"
    /\ cursor > Len(typeNameToTypes)
    /\ merged' = NewGraphQLSchema(query, mutation, newTypes)
    /\ pc' = "done"
    /\ UNCHANGED <<schemas, localSchema, query, mutation, typeNameToTypes,
                   newTypes, cursor>>
    /\ UNCHANGED execVars
    /\ UNCHANGED otherVars

Next == MergeRoots \/ IndexTypes \/ MergeOrRecreate \/ ReturnSchema

Spec == Init /\ [][Next]_vars

\* mergeRemoteSchemas as a function of its arguments.
RECURSIVE ProcessAll(_, _, _)
ProcessAll(tnt, i, nt) ==
    IF i > Len(tnt) THEN [threw |-> FALSE, newTypes |-> nt]
    ELSE LET r == ProcessCandidates(tnt[i].candidates, nt)
         IN IF r.threw THEN r ELSE ProcessAll(tnt, i + 1, r.newTypes)

mergeRemoteSchemas(ss, local) ==
    LET r == ProcessAll(BuildTypeNameToTypes(ss, local), 1, <<>>)
    IN IF r.threw THEN MergeError
       ELSE NewGraphQLSchema(mergeRootTypes(RootCandidates(ss, local, "query")),
                             mergeRootTypes(RootCandidates(ss, local, "mutation")),
                             r.newTypes)

-----------------------------------------------------------------------------
(* Properties of the merge                                                 *)

RECURSIVE PrintType(_)
PrintType(t) ==
    IF t.kind = "Named" THEN t.name
    ELSE IF t.kind = "List" THEN "[" \o PrintType(t.ofType) \o "]"
    ELSE PrintType(t.ofType) \o "!"

ArgShapes(f) ==
    {[name |-> f.args[k].name, type |-> PrintType(f.args[k].type)] :
        k \in 1..Len(f.args)}

FieldShape(f) ==
    [name |-> f.name, type |-> PrintType(f.type), args |-> ArgShapes(f)]

FieldShapes(t) == IF t = NoType THEN {} ELSE {FieldShape(f) : f \in Range(t.fields)}

TypeShape(t) ==
    [name |-> t.name, kind |-> t.kind, fields |-> FieldShapes(t),
     interfaces |-> {i.name : i \in Range(t.interfaces)},
     members |-> {m.name : m \in Range(t.members)},
     values |-> Range(t.values)]

SchemaShape(s) ==
    [types |-> {TypeShape(t) : t \in Range(s.types)},
     query |-> FieldShapes(s.query),
     mutation |-> FieldShapes(s.mutation),
     subscription |-> FieldShapes(s.subscription)]

\* The effective order: the local schema, then the remote ones in input order.
Effective == IF localSchema = NoSchema THEN schemas ELSE <<localSchema>> \o schemas

TypeNamesOf(s) == {t.name : t \in Range(s.types)}
AllTypeNames == UNION {TypeNamesOf(Effective[i]) : i \in 1..Len(Effective)}

\* The positions, in the effective order, of the schemas that declare n.
Declaring(n) == {i \in 1..Len(Effective) : n \in TypeNamesOf(Effective[i])}
DeclaredType(i, n) == Lookup(Effective[i].types, n)

\* The names no entry of the merged type table has (lines 480-482).
RootTypeNames == {"Query", "Mutation", "Subscription"}

\* n is a name of the type table that every declaring source gives to an
\* Object type.
IsSharedObjectName(n) ==
    /\ n \notin RootTypeNames
    /\ Declaring(n) # {}
    /\ \A i \in Declaring(n) : DeclaredType(i, n).kind = "OBJECT"

\* n is an Object type in one source and a non-Object type in another.
IsKindConflict(n) ==
    /\ \E i \in Declaring(n) : DeclaredType(i, n).kind = "OBJECT"
    /\ \E i \in Declaring(n) : DeclaredType(i, n).kind # "OBJECT"

FieldNamesOf(t) == {f.name : f \in Range(t.fields)}

\* The first position of the effective order whose type n declares field f.
FirstDeclaring(n, f) ==
    CHOOSE i \in Declaring(n) :
        /\ f \in FieldNamesOf(DeclaredType(i, n))
        /\ \A j \in Declaring(n) :
              f \in FieldNamesOf(DeclaredType(j, n)) => i <= j

MergedObjectFieldsRight(n) ==
    LET t == Lookup(merged.types, n)
    IN /\ HasName(merged.types, n)
       /\ FieldNamesOf(t) =
             UNION {FieldNamesOf(DeclaredType(i, n)) : i \in Declaring(n)}
       /\ \A a, b \in 1..Len(t.fields) : t.fields[a].name = t.fields[b].name => a = b
       /\ \A k \in 1..Len(t.fields) :
             LET first == FirstDeclaring(n, t.fields[k].name)
                 source == Lookup(DeclaredType(first, n).fields, t.fields[k].name)
             IN /\ FieldShape(t.fields[k]) = FieldShape(source)
                /\ t.fields[k].resolve.schema = Effective[first].id

UnionShape(a, b) ==
    [types |-> SchemaShape(a).types \cup SchemaShape(b).types,
     query |-> FieldShapes(a.query) \cup FieldShapes(b.query),
     mutation |-> FieldShapes(a.mutation) \cup FieldShapes(b.mutation),
     subscription |-> FieldShapes(a.subscription) \cup FieldShapes(b.subscription)]

RootFieldNames(s) ==
    {f.name : f \in FieldShapes(s.query) \cup FieldShapes(s.mutation)
                       \cup FieldShapes(s.subscription)}

DisjointSchemas(a, b) ==
    /\ TypeNamesOf(a) \cap TypeNamesOf(b) = {}
    /\ RootFieldNames(a) \cap RootFieldNames(b) = {}

DisjointPair ==
    /\ localSchema = NoSchema
    /\ Len(schemas) = 2
    /\ DisjointSchemas(schemas[1], schemas[2])

\* C2: for schemas A, B with disjoint type names and disjoint root field
\* names, the merge of [A, B] has exactly the union of both type tables and
\* of both root field maps, and the merge of [B, A] has the same shape.
C2_DisjointUnion ==
    (pc = "done" /\ DisjointPair) =>
        /\ SchemaShape(merged) = UnionShape(schemas[1], schemas[2])
        /\ SchemaShape(mergeRemoteSchemas(<<schemas[2], schemas[1]>>, NoSchema))
              = SchemaShape(merged)

\* What the code does keep of C2: the type table and the Query and Mutation
\* field maps are the unions, in either order; Subscription fields are lost.
C2_QueryMutationUnion ==
    (pc = "done" /\ DisjointPair) =>
        /\ [SchemaShape(merged) EXCEPT !.subscription = {}]
              = [UnionShape(schemas[1], schemas[2]) EXCEPT !.subscription = {}]
        /\ SchemaShape(mergeRemoteSchemas(<<schemas[2], schemas[1]>>, NoSchema))
              = SchemaShape(merged)

\* C4: when some type name is an Object type in one source schema and a
\* non-Object type in another, mergeRemoteSchemas throws and returns no
\* schema, wherever the conflicting schemas stand in the input.
C4_KindConflictThrows ==
    (\E n \in AllTypeNames : IsKindConflict(n)) =>
        /\ pc # "done"
        /\ merged \in {NoSchema, MergeError}
        /\ ~(pc = "types" /\ cursor > Len(typeNameToTypes))
        /\ pc = "failed" => merged = MergeError

\* The merge has thrown on Foo, an Object type of the first schema and a
\* scalar of the last one.
C4_Witness ==
    /\ pc = "failed"
    /\ merged = MergeError
    /\ Len(schemas) = 2
    /\ localSchema # NoSchema
    /\ schemas[2].id = "K"
    /\ IsKindConflict("Foo")
    /\ Lookup(Effective[1].types, "Foo").kind = "OBJECT"

-----------------------------------------------------------------------------
(* JavaScript values: what resolvers receive and return                    *)

Undefined == [k |-> "undefined"]
Null == [k |-> "null"]
\* A string, number or boolean, written as the string JSON prints ("0" is
\* the number 0, "false" the boolean, "" the empty string).
Scalar(v) == [k |-> "scalar", v |-> v]
\* errs: the errors under ERROR_SYMBOL, <<>> when the property is not set.
ObjE(f, errs) == [k |-> "object", f |-> f, errs |-> errs]
Obj(f) == ObjE(f, <<>>)
ListV(items) == [k |-> "list", items |-> items]

\* object[key]
Get(o, key) == IF o.k = "object" /\ key \in DOMAIN o.f THEN o.f[key] ELSE Undefined

IsNullish(v) == v.k \in {"null", "undefined"}

\* JavaScript truthiness
Truthy(v) ==
    \/ v.k \in {"object", "list"}
    \/ v.k = "scalar" /\ v.v \notin {"", "0", "false"}

GqlError(m, path) == [message |-> m, path |-> path]

\* A list index as a response-path segment.
Idx(i) == ToString(i - 1)

\* A field node of a query document.
Node(name, alias, args, sel) ==
    [name |-> name, alias |-> alias, args |-> args, sel |-> sel]

NoArgs == [x \in {} |-> Undefined]

\* The sub-sequences of field nodes that share a response key, in order of
\* first occurrence (collectFields of graphql's execute).
ResponseKeyOf(node) == IF node.alias # "" THEN node.alias ELSE node.name

collectFields(nodes) ==
    LET keyed == [i \in 1..Len(nodes) |->
                     [name |-> ResponseKeyOf(nodes[i]), node |-> nodes[i]]]
        keys == Names(FirstByName(keyed))
    IN [k \in 1..Len(keys) |->
        LET group == SelectSeq(keyed, LAMBDA e : e.name = keys[k])
        IN [i \in 1..Len(group) |-> group[i].node]]

\* The selection set below a group of field nodes (collectSubfields).
SubSelections(fieldNodes) ==
    Flatten([i \in 1..Len(fieldNodes) |-> fieldNodes[i].sel])

-----------------------------------------------------------------------------
(* The source schemas' own resolvers and graphql's execute on a source     *)

FooInput == Obj([id |-> Scalar("foo"), name |-> Scalar("something")])

\* The services with directives have the resolvers of fooSchema and barSchema.
ResolversOf(schemaId) ==
    IF schemaId = "P" THEN "A"
    ELSE IF schemaId \in {"Q", "R"} THEN "B"
    ELSE schemaId

\* The resolvers of the source schemas (resolvers: {...} of the spec file);
\* any other field has graphql's default resolver, parent[fieldName].
\* w.faults: the resolvers that throw; w.optv: the value of the nullable
\* fields Foo.nick and Baz.label; w.nobars: B's Foo.bars is the empty list;
\* w.nofoo: A finds no Foo of the id.
SourceResolver(schemaId, typeName, fieldName, parent, args, w) ==
    LET sid == ResolversOf(schemaId) IN
    IF <<sid, typeName, fieldName>> \in w.faults
    THEN [threw |-> TRUE, message |-> "failed: " \o fieldName, value |-> Undefined]
    ELSE [threw |-> FALSE, message |-> "", value |->
        CASE sid = "A" /\ typeName = "Query" /\ fieldName = "foo" ->
                IF w.nofoo THEN Null ELSE
                Obj([id |-> Scalar("foo"), name |-> Scalar("Name"),
                     date |-> Scalar("1970-01-01"), nick |-> w.optv])
          [] sid = "A" /\ typeName = "Query" /\ fieldName = "foos" ->
                ListV(<<Obj([id |-> Scalar("foo"), name |-> Scalar("Name")])>>)
          [] sid = "A" /\ typeName = "Mutation" /\ fieldName = "updateFoo" ->
                Obj([id |-> Get(Get(ObjE(args, <<>>), "input"), "id"),
                     name |-> Get(Get(ObjE(args, <<>>), "input"), "name")])
          [] sid = "B" /\ typeName = "Query" /\ fieldName = "bar" ->
                Obj([id |-> Scalar("bar"), date |-> Scalar("1970-01-01"),
                     foo |-> Obj([id |-> Scalar("foo")])])
          [] sid = "B" /\ typeName = "Query" /\ fieldName = "foo" ->
                Obj([id |-> Scalar("foo"),
                     bars |-> ListV(<<Obj([id |-> Scalar("bar")])>>),
                     a |-> Scalar("A")])
          [] sid = "B" /\ typeName = "Foo" /\ fieldName = "bars" ->
                IF w.nobars THEN ListV(<<>>)
                ELSE ListV(<<Obj([id |-> Scalar("bar"),
                                  date |-> Scalar("1970-01-01")])>>)
          [] sid = "B" /\ typeName = "Foo" /\ fieldName = "a" -> Scalar("A")
          [] sid = "D" /\ typeName = "Query" /\ fieldName = "bazs" ->
                ListV(<<Obj([id |-> Scalar("baz"), label |-> w.optv,
                             color |-> Scalar("RED"),
                             peers |-> ListV(<<Obj([id |-> Scalar("peer")])>>),
                             buddy |-> Obj([id |-> Scalar("buddy")])])>>)
          [] sid = "D" /\ typeName = "Mutation" /\ fieldName = "addBaz" ->
                Obj([id |-> Scalar("baz"), label |-> Get(ObjE(args, <<>>), "label"),
                     color |-> Scalar("RED")])
          [] OTHER -> Get(parent, fieldName)]

SourceType(schema, n) == Lookup(getTypeMap(schema), n)
IsSourceComposite(schema, n) ==
    /\ HasName(getTypeMap(schema), n)
    /\ SourceType(schema, n).kind \in {"OBJECT", "INTERFACE", "UNION"}

\* graphql's execute on a source schema. A completed value is
\* [v, errors, state]: state "ok" (v is the value), "nulled" (v is null
\* because of an error reported at or below it), "bubble" (v is null and a
\* non-null type sends the null to the parent).
RECURSIVE SourceComplete(_, _, _, _, _, _)
RECURSIVE SourceFields(_, _, _, _, _, _, _)
RECURSIVE SourceItems(_, _, _, _, _, _, _)

NonNullMessage == "Cannot return null for non-nullable field"

SourceComplete(schema, type, value, fieldNodes, path, w) ==
    IF isNonNullType(type)
    THEN LET r == SourceComplete(schema, type.ofType, value, fieldNodes, path, w)
         IN IF r.v # Null THEN r
            ELSE [v |-> Null, state |-> "bubble",
                  errors |-> IF r.state = "ok"
                             THEN <<GqlError(NonNullMessage, path)>>
                             ELSE r.errors]
    ELSE IF IsNullish(value) THEN [v |-> Null, errors |-> <<>>, state |-> "ok"]
    ELSE IF isListType(type)
    THEN IF value.k # "list"
         THEN [v |-> Null, state |-> "nulled",
               errors |-> <<GqlError("Expected Iterable", path)>>]
         ELSE LET r == SourceItems(schema, type.ofType, value.items, 1,
                                   fieldNodes, path, w)
              IN IF r.bubble
                 THEN [v |-> Null, errors |-> r.errors, state |-> "nulled"]
                 ELSE [v |-> ListV(r.items), errors |-> r.errors, state |-> "ok"]
    ELSE IF IsSourceComposite(schema, type.name)
    THEN LET r == SourceFields(schema, type.name,
                               collectFields(SubSelections(fieldNodes)), 1,
                               value, path, w)
         IN IF r.bubble
            THEN [v |-> Null, errors |-> r.errors, state |-> "nulled"]
            ELSE [v |-> Obj(r.f), errors |-> r.errors, state |-> "ok"]
    ELSE [v |-> value, errors |-> <<>>, state |-> "ok"]

SourceItems(schema, type, items, i, fieldNodes, path, w) ==
    IF i > Len(items) THEN [items |-> <<>>, errors |-> <<>>, bubble |-> FALSE]
    ELSE LET r == SourceComplete(schema, type, items[i], fieldNodes,
                                 Append(path, Idx(i)), w)
             rest == SourceItems(schema, type, items, i + 1, fieldNodes, path, w)
         IN [items |-> <<r.v>> \o rest.items,
             errors |-> r.errors \o rest.errors,
             bubble |-> r.state = "bubble" \/ rest.bubble]

\* One field of a source type: its resolver, then the completion of its value.
SourceField(schema, typeName, fieldNodes, parent, path, w) ==
    LET node == fieldNodes[1]
        field == Lookup(SourceType(schema, typeName).fields, node.name)
        r == SourceResolver(schema.id, typeName, node.name, parent, node.args, w)
    IN IF r.threw
       THEN [v |-> Null, errors |-> <<GqlError(r.message, path)>>,
             state |-> IF isNonNullType(field.type) THEN "bubble" ELSE "nulled"]
       ELSE SourceComplete(schema, field.type, r.value, fieldNodes, path, w)

SourceFields(schema, typeName, groups, i, parent, path, w) ==
    IF i > Len(groups) THEN [f |-> NoArgs, errors |-> <<>>, bubble |-> FALSE]
    ELSE LET key == ResponseKeyOf(groups[i][1])
             r == SourceField(schema, typeName, groups[i], parent,
                              Append(path, key), w)
             rest == SourceFields(schema, typeName, groups, i + 1, parent, path, w)
         IN [f |-> (key :> r.v) @@ rest.f,
             errors |-> r.errors \o rest.errors,
             bubble |-> r.state = "bubble" \/ rest.bubble]

\* execute(schema, document): {data, errors}. data is null when a non-null
\* root field sends its null up.
SourceExecute(schema, op, rootNodes, w) ==
    LET r == SourceFields(schema, schema[op].name, collectFields(rootNodes), 1,
                          Undefined, <<>>, w)
    IN [data |-> IF r.bubble THEN Null ELSE Obj(r.f), errors |-> r.errors]

-----------------------------------------------------------------------------
(* delegateToSchema of graphql-tools, as the resolvers use it              *)

SchemaById(id) == CHOOSE s \in SchemaLib \cup DirectiveLib : s.id = id

\* A delegation: the arguments of one delegateToSchema call. unwrap is the
\* response key the resolver reads out of the result ("" for none) and by
\* the response path of the field whose resolver called.
Request(schema, op, fieldName, args, fieldNodes, unwrap, by) ==
    [schema |-> schema, operation |-> op, fieldName |-> fieldName,
     args |-> args, fieldNodes |-> fieldNodes, unwrap |-> unwrap, by |-> by]

\* f restricted to the keys in S
Restrict(f, S) == [x \in (DOMAIN f) \cap S |-> f[x]]

ArgNames(field) == {field.args[i].name : i \in 1..Len(field.args)}

\* createDocument: one root field named fieldName, whose selections and
\* arguments are those of the given field nodes, one after the other.
RECURSIVE MergeArgs(_, _)
MergeArgs(fieldNodes, i) ==
    IF i > Len(fieldNodes) THEN NoArgs
    ELSE fieldNodes[i].args @@ MergeArgs(fieldNodes, i + 1)

createDocument(fieldName, fieldNodes) ==
    Node(fieldName, "", MergeArgs(fieldNodes, 1), SubSelections(fieldNodes))

\* AddArgumentsAsVariables: the arguments the target's root field declares
\* take the values passed as args.
AddArgumentsAsVariables(schema, op, root, args) ==
    IF schema[op] = NoType \/ ~HasName(schema[op].fields, root.name) THEN root
    ELSE LET declared == ArgNames(Lookup(schema[op].fields, root.name))
         IN [root EXCEPT !.args = Restrict(args, declared) @@ root.args]

\* FilterToSchema: drops the fields and arguments the target does not
\* declare, and the composite fields left with no selection.
RECURSIVE FilterToSchema(_, _, _)
FilterToSchema(schema, typeName, nodes) ==
    IF nodes = <<>> THEN <<>>
    ELSE LET node == nodes[1]
             rest == FilterToSchema(schema, typeName, Tail(nodes))
             type == SourceType(schema, typeName)
         IN IF ~HasName(type.fields, node.name) THEN rest
            ELSE LET field == Lookup(type.fields, node.name)
                     named == getNamedType(field.type).name
                     sel == IF IsSourceComposite(schema, named)
                            THEN FilterToSchema(schema, named, node.sel)
                            ELSE node.sel
                 IN IF IsSourceComposite(schema, named) /\ sel = <<>> THEN rest
                    ELSE <<[node EXCEPT
                              !.args = Restrict(node.args, ArgNames(field)),
                              !.sel = sel]>> \o rest

\* validate / variable coercion: a non-null argument of the root field has
\* no value.
MissingArgument(schema, op, roots) ==
    \E i \in 1..Len(roots) :
        LET field == Lookup(schema[op].fields, roots[i].name)
        IN \E k \in 1..Len(field.args) :
              /\ isNonNullType(field.args[k].type)
              /\ \/ field.args[k].name \notin DOMAIN roots[i].args
                 \/ IsNullish(roots[i].args[field.args[k].name])

RECURSIVE JoinMessages(_)
JoinMessages(errs) ==
    IF Len(errs) = 1 THEN errs[1].message
    ELSE errs[1].message \o "\n" \o JoinMessages(Tail(errs))

SlicePath(errs) ==
    [i \in 1..Len(errs) |-> [errs[i] EXCEPT !.path = Tail(errs[i].path)]]

\* annotateWithChildrenErrors: the errors go, with their path cut by the
\* segments above, on the object they are below; a list hands them to its items.
RECURSIVE annotateWithChildrenErrors(_, _)
annotateWithChildrenErrors(object, childrenErrors) ==
    IF childrenErrors = <<>> THEN object
    ELSE IF object.k = "list"
    THEN ListV([i \in 1..Len(object.items) |->
            annotateWithChildrenErrors(object.items[i],
                SlicePath(SelectSeq(childrenErrors,
                    LAMBDA e : Len(e.path) >= 2 /\ e.path[2] = Idx(i))))])
    ELSE ObjE(IF object.k = "object" THEN object.f ELSE NoArgs,
              SlicePath(childrenErrors))

\* checkResultAndHandleErrors(result, info, fieldName)
checkResultAndHandleErrors(result, fieldName) ==
    IF result.errors # <<>>
       /\ (result.data = Null \/ IsNullish(Get(result.data, fieldName)))
    THEN [threw |-> TRUE, message |-> JoinMessages(result.errors), value |-> Undefined]
    ELSE [threw |-> FALSE, message |-> "",
          value |-> annotateWithChildrenErrors(Get(result.data, fieldName),
                                               result.errors)]

\* The document the target is asked to execute: createDocument and the
\* request transforms.
delegatedDocument(req) ==
    LET schema == SchemaById(req.schema)
        root == AddArgumentsAsVariables(schema, req.operation,
                    createDocument(req.fieldName, req.fieldNodes), req.args)
    IN IF schema[req.operation] = NoType THEN <<>>
       ELSE FilterToSchema(schema, schema[req.operation].name, <<root>>)

\* execute(schema, document) of the target
delegatedExecution(req, w) ==
    SourceExecute(SchemaById(req.schema), req.operation, delegatedDocument(req), w)

\* What the promise delegateToSchema returns settles to.
delegateToSchema(req, w) ==
    LET schema == SchemaById(req.schema)
        op == req.operation
    IN IF schema[op] = NoType
       THEN [threw |-> TRUE, message |-> "Schema is not configured for " \o op,
             value |-> Undefined]
       ELSE IF MissingArgument(schema, op, delegatedDocument(req))
       THEN [threw |-> TRUE, message |-> "Argument of required type was not provided",
             value |-> Undefined]
       ELSE checkResultAndHandleErrors(delegatedExecution(req, w), req.fieldName)

-----------------------------------------------------------------------------
(* The resolvers of the merged schema (lines 218-316)                      *)

\* What a resolver call comes to: a value returned, an error thrown, or a
\* promise that waits for the delegation `request`.
Returned(v) == [kind |-> "value", value |-> v, message |-> "", request |-> <<>>]
Threw(m) == [kind |-> "throw", value |-> Undefined, message |-> m, request |-> <<>>]
Delegated(req) == [kind |-> "call", value |-> Undefined, message |-> "", request |-> <<req>>]

\* lines 224-231: info.operation.operation, info.fieldName and args go on.
rootResolver(schema, args, info) ==
    Delegated(Request(schema, info.operation, info.fieldName, args,
                      info.fieldNodes, "", info.path))

\* Mutant of responseKeyOf: the alias is ignored.
responseKeyIgnoringAlias(info) == info.fieldName

\* lines 240-242
responseKeyOf(info) ==
    IF info.fieldNodes[1].alias # "" THEN info.fieldNodes[1].alias
    ELSE info.fieldName

\* Mutant of IsPresent: the check `if (result)`.
IsPresentTruthy(result) == Truthy(result)

\* line 245: result !== undefined
IsPresent(result) == result # Undefined

\* lines 246-255: the parent's errors below responseKey, path cut by one.
subErrorsOf(parent, responseKey) ==
    IF parent.k # "object" THEN <<>>
    ELSE SlicePath(SelectSeq(parent.errs,
            LAMBDA error : error.path # <<>> /\ error.path[1] = responseKey))

\* lines 264-274: every error goes on the item its path starts with; an
\* item that is null or no item at all has no properties to set.
RECURSIVE AttachToItems(_, _)
AttachToItems(items, subErrors) ==
    IF subErrors = <<>> THEN [threw |-> FALSE, items |-> items]
    ELSE LET error == subErrors[1]
             at == {i \in 1..Len(items) : Idx(i) = error.path[1]}
         IN IF at = {} \/ \E i \in at : items[i].k # "object"
            THEN [threw |-> TRUE, items |-> items]
            ELSE AttachToItems(
                    [i \in 1..Len(items) |->
                        IF i \in at
                        THEN [items[i] EXCEPT
                                !.errs = Append(@, [error EXCEPT
                                                      !.path = Tail(error.path)])]
                        ELSE items[i]],
                    Tail(subErrors))

TypeErrorMessage == "TypeError: Cannot read property of null"

\* lines 244-280: the value is in the parent.
fromParent(parent, result, responseKey) ==
    LET subErrors == subErrorsOf(parent, responseKey)
        fieldError == SelectSeq(subErrors, LAMBDA error : error.path = <<>>)
    IN IF fieldError # <<>> THEN Threw(fieldError[1].message)
       ELSE IF subErrors = <<>> THEN Returned(result)
       ELSE IF result.k = "list"
       THEN LET r == AttachToItems(result.items, subErrors)
            IN IF r.threw THEN Threw(TypeErrorMessage)
               ELSE Returned(ListV(r.items))
       ELSE IF result.k = "object" THEN Returned([result EXCEPT !.errs = subErrors])
       ELSE IF result.k = "null" THEN Threw(TypeErrorMessage)
       ELSE Returned(result)

\* Mutant of delegation: the field is delegated under its own name, with no
\* entry-point wrapper.
delegationUnwrapped(schema, mergeQuery, parent, args, info) ==
    Request(schema, "query", info.fieldName, args, info.fieldNodes, "",
            info.path)

\* Mutant of delegation: the call is of the kind of the enclosing operation.
delegationSameOperation(schema, mergeQuery, parent, args, info) ==
    IF mergeQuery # ""
    THEN Request(schema, info.operation, mergeQuery, [id |-> Get(parent, "id")],
                 <<Node(mergeQuery, "", NoArgs, info.fieldNodes)>>,
                 responseKeyOf(info), info.path)
    ELSE Request(schema, info.operation, info.fieldName, args, info.fieldNodes,
                 "", info.path)

\* lines 281-306: the delegation of a field the parent does not hold.
delegation(schema, mergeQuery, parent, args, info) ==
    IF mergeQuery # ""
    THEN Request(schema, "query", mergeQuery, [id |-> Get(parent, "id")],
                 <<Node(mergeQuery, "", NoArgs, info.fieldNodes)>>,
                 responseKeyOf(info), info.path)
    ELSE Request(schema, "query", info.fieldName, args, info.fieldNodes, "",
                 info.path)

\* lines 239-315
fieldResolver(schema, mergeQuery, parent, args, info) ==
    LET responseKey == responseKeyOf(info)
        result == IF Truthy(parent) THEN Get(parent, responseKey) ELSE parent
    IN IF IsPresent(result)
       THEN fromParent(parent, result, responseKey)
       ELSE IF mergeQuery # "" /\ IsNullish(parent)
       THEN Threw(TypeErrorMessage)
       ELSE Delegated(delegation(schema, mergeQuery, parent, args, info))

\* Mutant of unwrap: the entry under the field's name, not the response key.
unwrapByName(requestResult, req) ==
    IF req.unwrap = "" THEN requestResult
    ELSE IF Truthy(requestResult)
    THEN Get(requestResult, req.fieldNodes[1].sel[1].name)
    ELSE Null

\* lines 307-313: the continuation of the request.
unwrap(requestResult, req) ==
    IF req.unwrap = "" THEN requestResult
    ELSE IF Truthy(requestResult) THEN Get(requestResult, req.unwrap)
    ELSE Null

\* line 213: a field of the local schema keeps field.resolve, the schema's
\* own resolver.
originalResolver(schema, typeName, parent, args, info, w) ==
    LET r == SourceResolver(schema, typeName, info.fieldName, parent, args, w)
    IN IF r.threw THEN Threw(r.message) ELSE Returned(r.value)

\* The resolver the merged schema holds for the field, called by execute.
CallResolver(resolve, typeName, parent, args, info, w) ==
    IF resolve.kind = "root" THEN rootResolver(resolve.schema, args, info)
    ELSE IF resolve.kind = "delegate"
    THEN fieldResolver(resolve.schema, resolve.mergeQuery, parent, args, info)
    ELSE IF resolve.kind = "original"
    THEN originalResolver(resolve.schema, typeName, parent, args, info, w)
    ELSE Returned(Get(parent, info.fieldName))

-----------------------------------------------------------------------------
(* graphql's execute on the merged schema                                  *)

MergedTypes(m) ==
    SelectSeq(<<m.query, m.mutation>>, LAMBDA t : t # NoType) \o m.types

RootTypeName(op) == IF op = "query" THEN "Query" ELSE "Mutation"

\* A field waiting for its resolver to be called.
Task(path, parentType, fieldNodes, parent) ==
    [path |-> path, parentType |-> parentType, fieldNodes |-> fieldNodes,
     parent |-> parent]

\* What the response holds at path: kind is "null", "leaf" (v), "list" (of n
\* items) or "object" (with keys); nn: the type at path is non-null.
Entry(path, kind, v, n, keys, nn) ==
    [path |-> path, kind |-> kind, v |-> v, n |-> n, keys |-> keys, nn |-> nn]

KeysOf(groups) == [i \in 1..Len(groups) |-> ResponseKeyOf(groups[i][1])]

NoEffect == [entries |-> {}, tasks |-> <<>>, errors |-> {}]

\* completeValue: the entries of the response the value settles, the fields
\* below it that are to be resolved, and the errors.
RECURSIVE completeValue(_, _, _, _, _, _)
completeValue(m, type, value, fieldNodes, path, nn) ==
    IF isNonNullType(type)
    THEN completeValue(m, type.ofType, value, fieldNodes, path, TRUE)
    ELSE IF IsNullish(value)
    THEN [NoEffect EXCEPT
            !.entries = {Entry(path, "null", Null, 0, <<>>, nn)},
            !.errors = IF nn THEN {GqlError(NonNullMessage, path)} ELSE {}]
    ELSE IF isListType(type)
    THEN IF value.k # "list"
         THEN [NoEffect EXCEPT
                 !.entries = {Entry(path, "null", Null, 0, <<>>, nn)},
                 !.errors = {GqlError("Expected Iterable", path)}]
         ELSE LET item(i) == completeValue(m, type.ofType, value.items[i],
                                           fieldNodes, Append(path, Idx(i)), FALSE)
                  all == 1..Len(value.items)
              IN [entries |-> {Entry(path, "list", Null, Len(value.items), <<>>, nn)}
                               \cup UNION {item(i).entries : i \in all},
                  tasks |-> Flatten([i \in all |-> item(i).tasks]),
                  errors |-> UNION {item(i).errors : i \in all}]
    ELSE IF /\ HasName(MergedTypes(m), type.name)
            /\ Lookup(MergedTypes(m), type.name).kind = "OBJECT"
    THEN LET groups == collectFields(SubSelections(fieldNodes))
         IN [NoEffect EXCEPT
               !.entries = {Entry(path, "object", Null, 0, KeysOf(groups), nn)},
               !.tasks = [i \in 1..Len(groups) |->
                            Task(Append(path, ResponseKeyOf(groups[i][1])),
                                 type.name, groups[i], value)]]
    ELSE [NoEffect EXCEPT
            !.entries = {Entry(path, "leaf", value, 0, <<>>, nn)}]

\* A resolver that threw: the field is null and the error is reported.
failedField(type, path, message) ==
    [NoEffect EXCEPT
        !.entries = {Entry(path, "null", Null, 0, <<>>, isNonNullType(type))},
        !.errors = {GqlError(message, path)}]

FieldOf(m, t) == Lookup(Lookup(MergedTypes(m), t.parentType).fields, t.fieldNodes[1].name)

\* getArgumentValues: the values of the arguments the field declares.
ArgumentValues(field, node) == Restrict(node.args, ArgNames(field))

InfoOf(t, op) ==
    [fieldName |-> t.fieldNodes[1].name, fieldNodes |-> t.fieldNodes,
     path |-> t.path, operation |-> op.op]

-----------------------------------------------------------------------------
(* A query against the merged schema                                       *)

F(name, sel) == Node(name, "", NoArgs, sel)
Leaf(name) == Node(name, "", NoArgs, <<>>)

\* The cross-schema query of the test (lines 177-229).
CrossSchemaQuery ==
    [op |-> "query", sel |->
        <<Node("bar", "", [id |-> Scalar("bar")],
               <<Leaf("id"),
                 F("foo", <<Leaf("id"), Leaf("name"), F("bars", <<Leaf("id")>>)>>)>>)>>]

\* foo(id: "foo") { id n: name nick bars { id } }
AliasQuery ==
    [op |-> "query", sel |->
        <<Node("foo", "", [id |-> Scalar("foo")],
               <<Leaf("id"), Node("name", "n", NoArgs, <<>>), Leaf("nick"),
                 F("bars", <<Leaf("id")>>)>>)>>]

\* bar(id: "bar") { foo { id nick } }
NickQuery ==
    [op |-> "query", sel |->
        <<Node("bar", "", [id |-> Scalar("bar")],
               <<F("foo", <<Leaf("id"), Leaf("nick")>>)>>)>>]

\* The mutation of the test (lines 231-261).
UpdateFooMutation ==
    [op |-> "mutation", sel |->
        <<Node("updateFoo", "", [input |-> FooInput],
               <<Leaf("id"), Leaf("name"), F("bars", <<Leaf("id")>>)>>)>>]

\* bazs { id l: label color }
BazsQuery ==
    [op |-> "query", sel |->
        <<F("bazs", <<Leaf("id"), Node("label", "l", NoArgs, <<>>),
                      Leaf("color")>>)>>]

\* bazs { id } first: foo(id: "foo") { name }
TwoRootsQuery ==
    [op |-> "query", sel |->
        <<F("bazs", <<Leaf("id")>>),
          Node("foo", "first", [id |-> Scalar("foo")], <<Leaf("name")>>)>>]

\* bazs { id peers { id } buddy { id } }
PeersQuery ==
    [op |-> "query", sel |->
        <<F("bazs", <<Leaf("id"), F("peers", <<Leaf("id")>>),
                      F("buddy", <<Leaf("id")>>)>>)>>]

\* foo(id: "foo") { name bars { id } }: the id of Foo is not selected.
NoIdQuery ==
    [op |-> "query", sel |->
        <<Node("foo", "", [id |-> Scalar("foo")],
               <<Leaf("name"), F("bars", <<Leaf("id")>>)>>)>>]

Operations ==
    {CrossSchemaQuery, AliasQuery, NickQuery, UpdateFooMutation, BazsQuery,
     TwoRootsQuery, PeersQuery, NoIdQuery}

NoFault ==
    [faults |-> {}, optv |-> Scalar("Nick"), nobars |-> FALSE, nofoo |-> FALSE]

\* What the source schemas' resolvers do during the query.
Worlds ==
    {NoFault}
    \cup {[NoFault EXCEPT !.faults = {f}] :
            f \in {<<"A", "Foo", "nick">>, <<"A", "Foo", "name">>,
                   <<"A", "Query", "foo">>, <<"B", "Foo", "bars">>,
                   <<"D", "Baz", "label">>, <<"D", "Peer", "id">>}}
    \cup {[NoFault EXCEPT !.optv = v] :
            v \in {Scalar(""), Scalar("0"), Scalar("false"), Null}}
    \cup {[NoFault EXCEPT !.nobars = TRUE], [NoFault EXCEPT !.nofoo = TRUE]}

\* validate(schema, document): the fields exist, composite ones are selected
\* into and leaves are not, and the arguments are declared.
RECURSIVE ValidSelection(_, _, _)
ValidSelection(m, typeName, nodes) ==
    \A i \in 1..Len(nodes) :
        LET type == Lookup(MergedTypes(m), typeName)
        IN /\ HasName(type.fields, nodes[i].name)
           /\ LET field == Lookup(type.fields, nodes[i].name)
                  named == getNamedType(field.type).name
                  composite ==
                      /\ HasName(MergedTypes(m), named)
                      /\ Lookup(MergedTypes(m), named).kind
                            \in {"OBJECT", "INTERFACE", "UNION"}
              IN /\ DOMAIN nodes[i].args \subseteq ArgNames(field)
                 /\ IF composite
                    THEN /\ nodes[i].sel # <<>>
                         /\ Lookup(MergedTypes(m), named).kind = "OBJECT"
                         /\ ValidSelection(m, named, nodes[i].sel)
                    ELSE nodes[i].sel = <<>>

ValidOperation(m, o) ==
    /\ m[o.op] # NoType
    /\ ValidSelection(m, RootTypeName(o.op), o.sel)

\* The schemas whose resolvers run queries in this model.
ExecLib == {SchemaA, SchemaB, SchemaD}

InitExec ==
    /\ schemas \in SeqsUpTo(ExecLib, MaxSchemas) \ {<<>>}
    /\ localSchema \in {NoSchema, SchemaA, SchemaD}
    /\ pc = "roots"
    /\ query = NoType
    /\ mutation = NoType
    /\ typeNameToTypes = <<>>
    /\ newTypes = <<>>
    /\ cursor = 1
    /\ merged = NoSchema
    /\ operation = NoOperation
    /\ world = NoWorld
    /\ tasks = <<>>
    /\ pending = {}
    /\ results = {}
    /\ errors = {}
    /\ calls = <<>>
    /\ coerced = NoCoercion
    /\ reducedSchema = NoSchema
    /\ rightIndex = 1
    /\ fanned = <<>>
    /\ joined = NoJoin

\* graphql(mergedSchema, query): the root fields are to be resolved.
Execute ==
    /\ pc = "done"
    /\ operation = NoOperation
    /\ \E o \in Operations, w \in Worlds :
          /\ ValidOperation(merged, o)
          /\ operation' = o
          /\ world' = w
          /\ LET groups == collectFields(o.sel)
             IN tasks' = [i \in 1..Len(groups) |->
                             Task(<<ResponseKeyOf(groups[i][1])>>,
                                  RootTypeName(o.op), groups[i], Undefined)]
    /\ UNCHANGED <<pending, results, errors, calls>>
    /\ UNCHANGED mergeVars
    /\ UNCHANGED otherVars

\* execute calls the resolver of the next field and completes what it
\* returns; a promise is left pending.
ResolveField ==
    /\ tasks # <<>>
    /\ LET t == Head(tasks)
           field == FieldOf(merged, t)
           r == CallResolver(field.resolve, t.parentType, t.parent,
                             ArgumentValues(field, t.fieldNodes[1]),
                             InfoOf(t, operation), world)
           done == IF r.kind = "value"
                   THEN completeValue(merged, field.type, r.value, t.fieldNodes,
                                      t.path, FALSE)
                   ELSE IF r.kind = "throw"
                   THEN failedField(field.type, t.path, r.message)
                   ELSE NoEffect
       IN /\ tasks' = done.tasks \o Tail(tasks)
          /\ results' = results \cup done.entries
          /\ errors' = errors \cup done.errors
          /\ calls' = calls \o r.request
          /\ pending' = pending \cup
                {[path |-> t.path, type |-> field.type,
                  fieldNodes |-> t.fieldNodes, request |-> r.request[i]] :
                    i \in 1..Len(r.request)}
    /\ UNCHANGED <<operation, world>>
    /\ UNCHANGED mergeVars
    /\ UNCHANGED otherVars

\* Mutant of stillPending: a rejected promise abandons the other ones.
stillPendingUnlessRejected(awaiting, p, r) ==
    IF r.threw THEN {} ELSE awaiting \ {p}

\* The promises execute still waits for once that of p has settled with r:
\* every field's promise is awaited on its own, whatever r is.
stillPending(awaiting, p, r) == awaiting \ {p}

\* The promise of a delegation settles once the resolvers that can run have
\* run: its continuation, then the completion of the field.
Deliver ==
    /\ tasks = <<>>
    /\ \E p \in pending :
          LET r == delegateToSchema(p.request, world)
              done == IF r.threw
                      THEN failedField(p.type, p.path, r.message)
                      ELSE completeValue(merged, p.type, unwrap(r.value, p.request),
                                         p.fieldNodes, p.path, FALSE)
          IN /\ pending' = stillPending(pending, p, r)
             /\ tasks' = done.tasks
             /\ results' = results \cup done.entries
             /\ errors' = errors \cup done.errors
    /\ UNCHANGED <<operation, world, calls>>
    /\ UNCHANGED mergeVars
    /\ UNCHANGED otherVars

NextExec == Next \/ Execute \/ ResolveField \/ Deliver

SpecExec == InitExec /\ [][NextExec]_vars

\* The response: the data assembled from the entries, a null going up from
\* every non-null position to the nearest nullable one.
Finished == operation # NoOperation /\ tasks = <<>> /\ pending = {}

EntryAt(path) == CHOOSE e \in results : e.path = path

RECURSIVE Assemble(_)
Assemble(path) ==
    LET e == EntryAt(path)
    IN IF e.kind = "null" THEN [v |-> Null, bubble |-> e.nn]
       ELSE IF e.kind = "leaf" THEN [v |-> e.v, bubble |-> FALSE]
       ELSE IF e.kind = "list"
       THEN LET items == [i \in 1..e.n |-> Assemble(Append(path, Idx(i)))]
            IN IF \E i \in 1..e.n : items[i].bubble
               THEN [v |-> Null, bubble |-> e.nn]
               ELSE [v |-> ListV([i \in 1..e.n |-> items[i].v]), bubble |-> FALSE]
       ELSE LET fields == [i \in 1..Len(e.keys) |-> Assemble(Append(path, e.keys[i]))]
            IN IF \E i \in 1..Len(e.keys) : fields[i].bubble
               THEN [v |-> Null, bubble |-> e.nn]
               ELSE [v |-> Obj([k \in Range(e.keys) |->
                                  fields[CHOOSE i \in 1..Len(e.keys) : e.keys[i] = k].v]),
                     bubble |-> FALSE]

ResponseData ==
    LET keys == KeysOf(collectFields(operation.sel))
        fields == [i \in 1..Len(keys) |-> Assemble(<<keys[i]>>)]
    IN IF \E i \in 1..Len(keys) : fields[i].bubble THEN Null
       ELSE Obj([k \in Range(keys) |->
                    fields[CHOOSE i \in 1..Len(keys) : keys[i] = k].v])

-----------------------------------------------------------------------------
(* Properties of the execution                                             *)

ParentPath(path) == SubSeq(path, 1, Len(path) - 1)
LastOf(path) == path[Len(path)]

\* The field nodes of the operation's root field with response key k.
RootGroup(k) ==
    SelectSeq(operation.sel, LAMBDA node : ResponseKeyOf(node) = k)

RootKeys == {ResponseKeyOf(operation.sel[i]) : i \in 1..Len(operation.sel)}

\* The positions, in the effective order, whose root type of the operation
\* declares f, and the schema at the first of them.
RootDeclaring(f) ==
    {i \in 1..Len(Effective) :
        /\ Effective[i][operation.op] # NoType
        /\ f \in FieldNamesOf(Effective[i][operation.op])}

FirstRootDeclarer(f) ==
    Effective[CHOOSE i \in RootDeclaring(f) : \A j \in RootDeclaring(f) : i <= j]

CallsBy(path) == SelectSeq(calls, LAMBDA c : c.by = path)

IsStarted(path) ==
    /\ operation # NoOperation
    /\ \A i \in 1..Len(tasks) : tasks[i].path # path

IsSettled(path) == \E e \in results : e.path = path

\* The entry of the response at path is what the value v completes to.
Matches(e, v) ==
    \/ IsNullish(v) /\ e.kind = "null"
    \/ v.k = "scalar" /\ e.kind = "leaf" /\ e.v = v
    \/ v.k = "list" /\ e.kind = "list" /\ e.n = Len(v.items)
    \/ v.k = "object" /\ e.kind = "object"

ExpectedScenario1 ==
    Obj([bar |-> Obj([id |-> Scalar("bar"),
                      foo |-> Obj([id |-> Scalar("foo"),
                                   name |-> Scalar("Name"),
                                   bars |-> ListV(<<Obj([id |-> Scalar("bar")])>>)])])])

IsScenario1 ==
    /\ schemas = <<SchemaA, SchemaB>>
    /\ localSchema = NoSchema
    /\ operation = CrossSchemaQuery
    /\ world.faults = {} /\ ~world.nobars /\ ~world.nofoo

\* C3: scenario 1. Merging A and B and executing
\* bar(id:"bar"){ id foo { id name bars { id } } } returns
\* {bar:{id:"bar", foo:{id:"foo", name:"Name", bars:[{id:"bar"}]}}} with no
\* errors; bar is delegated to B, and Foo.name is back-filled by exactly one
\* delegated query foo(id:"foo") to A: two delegated calls in all.
C3_Scenario1 ==
    IsScenario1 =>
        /\ errors = {}
        /\ Len(calls) <= 2
        /\ Len(calls) >= 1 =>
              /\ calls[1].schema = "B" /\ calls[1].fieldName = "bar"
              /\ calls[1].operation = "query"
              /\ calls[1].args = [id |-> Scalar("bar")]
        /\ Len(calls) = 2 =>
              /\ calls[2].schema = "A" /\ calls[2].fieldName = "foo"
              /\ calls[2].operation = "query"
              /\ calls[2].args = [id |-> Scalar("foo")]
              /\ delegatedDocument(calls[2])
                    = <<Node("foo", "", [id |-> Scalar("foo")], <<Leaf("name")>>)>>
        /\ Finished =>
              /\ ResponseData = ExpectedScenario1
              /\ Len(calls) = 2

C3_Witness == IsScenario1 /\ Finished /\ Len(calls) = 2

\* C5: resolving a root field f of the merged Query or Mutation type issues
\* exactly one delegated call, to the first schema in the effective order
\* whose root type declares f, with the incoming operation kind, the field
\* name f and the arguments unchanged; no other schema is called for it, and
\* the field settles to that schema's result, or to its error, as it is.
C5_RootDelegation ==
    \A k \in (IF operation = NoOperation THEN {} ELSE RootKeys) :
        LET node == RootGroup(k)[1]
            owner == FirstRootDeclarer(node.name)
            mine == CallsBy(<<k>>)
            theirs == SourceExecute(owner, operation.op,
                          FilterToSchema(owner, owner[operation.op].name,
                              <<Node(node.name, "", node.args,
                                     SubSelections(RootGroup(k)))>>),
                          world)
        IN /\ ~IsStarted(<<k>>) => mine = <<>>
           /\ IsStarted(<<k>>) =>
                 /\ Len(mine) = 1
                 /\ mine[1].schema = owner.id
                 /\ mine[1].operation = operation.op
                 /\ mine[1].fieldName = node.name
                 /\ mine[1].args = node.args
                 /\ mine[1].fieldNodes = RootGroup(k)
           /\ IsSettled(<<k>>) =>
                 IF theirs.errors # <<>>
                    /\ (theirs.data = Null \/ IsNullish(Get(theirs.data, node.name)))
                 THEN /\ EntryAt(<<k>>).kind = "null"
                      /\ GqlError(JoinMessages(theirs.errors), <<k>>) \in errors
                 ELSE /\ Matches(EntryAt(<<k>>), Get(theirs.data, node.name))
                      /\ \A e \in errors :
                            e.path = <<k>> => e.message = NonNullMessage

\* A root field that two schemas declare was resolved by one call.
C5_Witness ==
    /\ Finished
    /\ \E k \in RootKeys :
          /\ Cardinality(RootDeclaring(RootGroup(k)[1].name)) >= 2
          /\ Len(CallsBy(<<k>>)) = 1
          /\ EntryAt(<<k>>).kind = "object"


\* The name with its first letter in lower case.
LowerFirst(n) == Join(<<toLowerChar(NameChars(n)[1])>> \o Tail(NameChars(n)))

NodeKey(node) == IF node.alias # "" THEN node.alias ELSE node.name

\* The schema that is first, in the effective order, to declare field f of
\* the object type n.
FieldOwner(n, f) == Effective[FirstDeclaring(n, f)]

IsDelegateTurn ==
    /\ tasks # <<>>
    /\ FieldOf(merged, Head(tasks)).resolve.kind = "delegate"

\* The errors the parent carries for the key: those whose path starts with it.
CarriesErrors(parent, key) ==
    /\ parent.k = "object"
    /\ \E i \in 1..Len(parent.errs) :
          parent.errs[i].path # <<>> /\ parent.errs[i].path[1] = key

Settling == pending \ pending'

\* C7: when the parent holds nothing under the response key, the field
\* delegation resolver issues exactly one delegated call, to the schema that
\* owns the field: a query whose single outer field is the entry point, with
\* the argument {id: parent.id}, and whose selection set is exactly the field
\* nodes requested for the field. The field settles to the entry under the
\* response key of the wrapper's result, to null when the wrapper resolved
\* to nothing (and to the error when the delegated query failed as a whole).
C7_EntryPointDelegation ==
    [][/\ (IsDelegateTurn
            /\ Get(Head(tasks).parent, NodeKey(Head(tasks).fieldNodes[1])) = Undefined)
          => LET t == Head(tasks)
                 entry == LowerFirst(t.parentType)
                 call == calls'[Len(calls')]
             IN /\ Len(calls') = Len(calls) + 1
                /\ SubSeq(calls', 1, Len(calls)) = calls
                /\ call.schema = FieldOwner(t.parentType, t.fieldNodes[1].name).id
                /\ call.operation = "query"
                /\ call.fieldName = entry
                /\ call.args = [id |-> Get(t.parent, "id")]
                /\ call.fieldNodes = <<Node(entry, "", NoArgs, t.fieldNodes)>>
                /\ Cardinality(pending') = Cardinality(pending) + 1
                /\ \E p \in pending' \ pending : p.path = t.path /\ p.request = call
       /\ \A p \in Settling :
            (p.request.unwrap # "" /\ ~IsNullish(p.request.args.id)) =>
               LET owner == SchemaById(p.request.schema)
                   entry == p.request.fieldName
                   type == getNamedType(Lookup(owner.query.fields, entry).type).name
                   theirs == SourceExecute(owner, "query",
                                <<Node(entry, "", p.request.args,
                                       FilterToSchema(owner, type, p.fieldNodes))>>,
                                world)
                   wrapper == Get(theirs.data, entry)
                   mine == CHOOSE e \in results' : e.path = p.path
               IN /\ \E e \in results' : e.path = p.path
                  /\ IF theirs.errors # <<>> /\ IsNullish(wrapper)
                     THEN /\ mine.kind = "null"
                          /\ GqlError(JoinMessages(theirs.errors), p.path) \in errors'
                     ELSE IF IsNullish(wrapper) THEN mine.kind = "null"
                     ELSE Matches(mine, Get(wrapper, NodeKey(p.fieldNodes[1])))]_vars

\* The aliased Foo.name, absent from B's result, came from A's foo(id).
C7_Witness ==
    /\ Finished
    /\ schemas[1] = SchemaB
    /\ operation = AliasQuery
    /\ \E i \in 1..Len(calls) :
          /\ calls[i].by = <<"foo", "n">>
          /\ calls[i].schema = "A"
          /\ calls[i].unwrap = "n"
    /\ IsSettled(<<"foo", "n">>)
    /\ EntryAt(<<"foo", "n">>).v = Scalar("Name")


\* The value at path inside a delegated result.
RECURSIVE ValueAt(_, _)
ValueAt(v, path) ==
    IF path = <<>> THEN v
    ELSE IF v.k = "object" THEN ValueAt(Get(v, path[1]), Tail(path))
    ELSE IF v.k = "list" /\ \E i \in 1..Len(v.items) : Idx(i) = path[1]
    THEN ValueAt(v.items[CHOOSE i \in 1..Len(v.items) : Idx(i) = path[1]],
                 Tail(path))
    ELSE Undefined

\* The delegated execution returned data for the requested field together
\* with errors.
IsPartial(ex, call) ==
    /\ ex.errors # <<>>
    /\ ex.data # Null
    /\ ~IsNullish(Get(ex.data, call.fieldName))

\* The error designates a field whose parent object is in the delegated
\* result: it belongs to that field and to nothing above it.
DesignatesField(ex, e) ==
    /\ Len(e.path) >= 2
    /\ ValueAt(ex.data, ParentPath(e.path)).k = "object"

\* Where a path of the delegated result lies in the response.
ResponsePath(call, path) ==
    (IF call.unwrap = "" THEN call.by ELSE ParentPath(call.by)) \o Tail(path)

\* The partial errors of the delegated call are raised by the resolvers of the
\* fields they designate, and the sibling fields have their data.
FieldErrorsRaised(call) ==
    LET ex == delegatedExecution(call, world)
    IN IsPartial(ex, call) =>
          \A i \in 1..Len(ex.errors) :
              LET e == ex.errors[i]
                  siblings == ValueAt(ex.data, ParentPath(e.path))
              IN DesignatesField(ex, e) =>
                    /\ GqlError(e.message, ResponsePath(call, e.path)) \in errors
                    /\ \A k \in DOMAIN siblings.f :
                          ~IsNullish(siblings.f[k]) =>
                             \E r \in results :
                                /\ r.path = ResponsePath(call, Append(ParentPath(e.path), k))
                                /\ r.kind # "null"

\* C8: whenever a delegated execution reports a partial error whose path
\* designates exactly the requested field, the resolver of that field fails
\* with that error instead of returning a value, both when the field is read
\* from a parent produced by an earlier delegation and when it is obtained
\* by the resolver's own entry-point delegation; the sibling fields keep
\* their data. Stated of the merges with no local schema, where every field
\* below the root has the field delegation resolver.
C8_FieldErrorRaised ==
    (Finished /\ localSchema = NoSchema) =>
        \A i \in 1..Len(calls) : FieldErrorsRaised(calls[i])

\* The part of C8 that holds: the errors of a root delegation, which reach
\* the field through the parent.
C8_RaisedFromParent ==
    (Finished /\ localSchema = NoSchema) =>
        \A i \in 1..Len(calls) : calls[i].unwrap = "" => FieldErrorsRaised(calls[i])

C8_RaisedFromParentWitness ==
    /\ Finished
    /\ localSchema = NoSchema
    /\ \E i \in 1..Len(calls) :
          /\ calls[i].unwrap = ""
          /\ IsPartial(delegatedExecution(calls[i], world), calls[i])
          /\ \E e \in errors : e.message = "failed: nick"


RECURSIVE ListDepth(_)
ListDepth(type) ==
    IF type.kind = "Named" THEN 0
    ELSE IF type.kind = "List" THEN 1 + ListDepth(type.ofType)
    ELSE ListDepth(type.ofType)

\* The field a response path ends at: the type that has it, its name and its
\* field nodes, found by walking the operation along the path.
RECURSIVE LocateIn(_, _, _)
LocateIn(typeName, nodes, path) ==
    LET group == SelectSeq(nodes, LAMBDA node : NodeKey(node) = path[1])
        field == Lookup(Lookup(MergedTypes(merged), typeName).fields, group[1].name)
        rest == SubSeq(path, 2 + ListDepth(field.type), Len(path))
    IN IF rest = <<>>
       THEN [parentType |-> typeName, name |-> group[1].name, fieldNodes |-> group]
       ELSE LocateIn(getNamedType(field.type).name, SubSelections(group), rest)

Locate(path) == LocateIn(RootTypeName(operation.op), operation.sel, path)

\* The local schema is the one that owns the field at path: it is the first
\* of the effective order, and it declares the field.
LocalDeclares(n, f) ==
    /\ localSchema # NoSchema
    /\ n \in TypeNamesOf(localSchema)
    /\ f \in FieldNamesOf(Lookup(localSchema.types, n))

LocalOwns(path) ==
    /\ localSchema # NoSchema
    /\ IF Len(path) = 1
       THEN /\ localSchema[operation.op] # NoType
            /\ Locate(path).name \in FieldNamesOf(localSchema[operation.op])
       ELSE LocalDeclares(Locate(path).parentType, Locate(path).name)

\* C9 as the claim states it: no field the local schema owns, its root
\* fields included, is ever resolved through a delegated call.
C9_LocalNeverDelegated ==
    \A i \in 1..Len(calls) : ~LocalOwns(calls[i].by)

\* C9, amended: a field below the root that the local schema owns keeps the
\* local schema's own resolver and is never resolved through a delegated
\* call; a root field that the local schema owns is resolved by exactly one
\* delegated call, addressed to the local schema itself.
C9_LocalFieldsKeepResolver ==
    /\ pc = "done" =>
          \A i \in 1..Len(merged.types) :
              LET t == merged.types[i]
              IN t.kind = "OBJECT" =>
                    \A k \in 1..Len(t.fields) :
                        LocalDeclares(t.name, t.fields[k].name) =>
                            t.fields[k].resolve =
                                Lookup(Lookup(localSchema.types, t.name).fields,
                                       t.fields[k].name).resolve
    /\ \A i \in 1..Len(calls) :
          Len(calls[i].by) > 1 => ~LocalOwns(calls[i].by)
    /\ \A k \in (IF operation = NoOperation THEN {} ELSE RootKeys) :
          (IsStarted(<<k>>) /\ LocalOwns(<<k>>)) =>
              /\ Len(CallsBy(<<k>>)) = 1
              /\ CallsBy(<<k>>)[1].schema = localSchema.id
              /\ CallsBy(<<k>>)[1].unwrap = ""

\* The test's mutation with a local schema: updateFoo went to the local
\* schema in one call, and name below it was resolved with no call.
C9_Witness ==
    /\ Finished
    /\ localSchema = SchemaA
    /\ operation = UpdateFooMutation
    /\ Len(CallsBy(<<"updateFoo">>)) = 1
    /\ CallsBy(<<"updateFoo">>)[1].schema = "A"
    /\ LocalOwns(<<"updateFoo", "name">>)
    /\ CallsBy(<<"updateFoo", "name">>) = <<>>
    /\ IsSettled(<<"updateFoo", "name">>)
    /\ EntryAt(<<"updateFoo", "name">>).v = Scalar("something")

\* The schemas that declare the type n.
DeclaringSchemas(n) == {Effective[i].id : i \in Declaring(n)}

-----------------------------------------------------------------------------
(* The entry-point name bound to a merged object type                      *)

\* The merged object types other than the roots, and the entry-point names
\* their delegating resolvers were created with.
MergedObjectTypes ==
    {t \in Range(merged.types) : isObjectType(t)}

DelegatedFields(t) == {f \in Range(t.fields) : f.resolve.kind = "delegate"}

EntryPointsOf(t) == {f.resolve.mergeQuery : f \in DelegatedFields(t)}

CamelCased(n) ==
    CASE n = "Foo" -> "foo"
      [] n = "Bar" -> "bar"
      [] n = "Baz" -> "baz"
      [] n = "Peer" -> "peer"
      [] n = "FooBar" -> "fooBar"
      [] n = "Foo_Bar" -> "fooBar"
      [] n = "URLThing" -> "urlThing"

-----------------------------------------------------------------------------
(* The Subscription root                                                   *)

SubscriptionSources ==
    {i \in 1..Len(Effective) : Effective[i].subscription # NoType}

\* C12: if at least one source schema defines a Subscription root type, the
\* returned schema has a Subscription root type whose fields are the union of
\* the sources' Subscription fields.  Violated: mergeRemoteSchemas merges the
\* Query and Mutation roots only and passes no subscription to the new schema.
C12_SubscriptionMerged ==
    (pc = "done" /\ SubscriptionSources # {}) =>
        /\ merged.subscription # NoType
        /\ FieldNamesOf(merged.subscription) =
              UNION {FieldNamesOf(Effective[i].subscription) : i \in SubscriptionSources}

-----------------------------------------------------------------------------
(* How many entry-point delegations one parent object costs               *)

\* The entry-point delegations issued by the fields of the object at path.
EntryPointCalls(path) ==
    {i \in 1..Len(calls) :
        /\ calls[i].unwrap # ""
        /\ Len(calls[i].by) >= 1
        /\ ParentPath(calls[i].by) = path}

\* The schema that owns the field that issued the call.
OriginOf(call) == FieldOwner(Locate(call.by).parentType, Locate(call.by).name)

\* The origins that own a requested field the object at path did not hold
\* (a field issues its call exactly when the parent does not hold it).
AbsentOrigins(path) == {OriginOf(calls[i]).id : i \in EntryPointCalls(path)}

ParentPaths == {ParentPath(calls[i].by) : i \in 1..Len(calls)}

\* C13: a query that selects fields of a shared object type from several
\* origins succeeds, and the number of entry-point delegations issued for one
\* parent object is the number of origins that own an absent requested
\* field.  Violated: with
\* [B, A] and foo(id: "foo") { id n: name nick bars { id } } the parent lacks
\* n and nick, both of A, and A receives two delegated queries.
C13_OneDelegationPerOrigin ==
    /\ \A path \in ParentPaths :
          Cardinality(EntryPointCalls(path)) = Cardinality(AbsentOrigins(path))
    /\ (Finished /\ world = NoFault /\ localSchema = NoSchema) => errors = {}

\* What holds of the entry-point delegations instead: every requested field
\* that is absent from the parent value issues its own delegation, addressed
\* to the origin that owns the field and selecting that field alone, so that
\* an origin receives as many queries as it owns absent fields.  (Such a
\* query does not always succeed: the delegation of a parent whose id was
\* not selected fails, C29.)
C13_OneDelegationPerAbsentField ==
    /\ \A i, j \in 1..Len(calls) : calls[i].by = calls[j].by => i = j
    /\ \A i \in 1..Len(calls) :
          Len(calls[i].by) >= 2 =>
              /\ calls[i].unwrap # ""
              /\ calls[i].schema = OriginOf(calls[i]).id
              /\ calls[i].fieldNodes[1].sel = Locate(calls[i].by).fieldNodes

\* Two absent fields of one origin: two delegated queries to A for one Foo.
C13_Witness ==
    /\ Finished
    /\ schemas = <<SchemaB, SchemaA>>
    /\ localSchema = NoSchema
    /\ operation = AliasQuery
    /\ world = NoFault
    /\ errors = {}
    /\ Cardinality(EntryPointCalls(<<"foo">>)) = 2
    /\ AbsentOrigins(<<"foo">>) = {"A"}

-----------------------------------------------------------------------------
(* The printed structure of a schema                                       *)

PrintedArgs(f) ==
    [k \in 1..Len(f.args) |->
        [name |-> f.args[k].name, type |-> PrintType(f.args[k].type)]]

PrintedField(f) ==
    [name |-> f.name, type |-> PrintType(f.type), args |-> PrintedArgs(f)]

\* A type as printSchema shows it: its fields, interfaces, members and values
\* in their order.
PrintedType(t) ==
    IF t = NoType THEN <<>>
    ELSE [name |-> t.name, kind |-> t.kind,
          fields |-> [k \in 1..Len(t.fields) |-> PrintedField(t.fields[k])],
          interfaces |-> [k \in 1..Len(t.interfaces) |-> t.interfaces[k].name],
          members |-> [k \in 1..Len(t.members) |-> t.members[k].name],
          values |-> t.values]

\* printSchema lists the types by name, whatever their order in the type map.
PrintedSchema(s) ==
    [query |-> PrintedType(s.query),
     mutation |-> PrintedType(s.mutation),
     subscription |-> PrintedType(s.subscription),
     types |-> {PrintedType(t) : t \in Range(s.types)}]

IsSameTwice ==
    /\ localSchema = NoSchema
    /\ Len(schemas) = 2
    /\ schemas[1] = schemas[2]

-----------------------------------------------------------------------------
(* The merge of a single schema                                            *)

IsSingleSchema ==
    /\ localSchema = NoSchema
    /\ Len(schemas) = 1

\* C15: for every schema A the merge of [A] reproduces A's observable shape:
\* the same root types, the same non-built-in type names with the same kinds,
\* and for each type the same field names, field types and arguments.
\* Violated for a schema that has a Subscription root, which the merge drops.
C15_SingleSchemaReproduced ==
    (IsSingleSchema /\ pc = "done") =>
        PrintedSchema(merged) = PrintedSchema(schemas[1])

-----------------------------------------------------------------------------
(* The type references of the returned schema                              *)

\* The references held by a type: by its fields and their arguments (the
\* fields of an input type included), its interfaces and its members.
ReferencesOf(t) ==
    IF t = NoType THEN {}
    ELSE {getNamedType(f.type) : f \in Range(t.fields)}
         \cup UNION {{getNamedType(f.args[k].type) : k \in 1..Len(f.args)} :
                        f \in {g \in Range(t.fields) : "args" \in DOMAIN g}}
         \cup Range(t.interfaces)
         \cup Range(t.members)

ReferencesOfSchema(s) ==
    ReferencesOf(s.query) \cup ReferencesOf(s.mutation)
        \cup UNION {ReferencesOf(t) : t \in Range(s.types)}

\* C16: in the returned schema every type reference held by a field, an
\* argument, an input field, a union member list or an interface list
\* resolves to a type object of this merge call or to a built-in scalar, never
\* to a source schema's pre-merge object.  Violated: a reference to a root
\* type is left as it was, the merged table having no entry for root types.
C16_ReferencesRepointed ==
    pc = "done" =>
        \A r \in ReferencesOfSchema(merged) : r.src \in {"merged", "builtin"}

-----------------------------------------------------------------------------
(* What a scalar type does to a value                                      *)

\* A JavaScript Date object of the given day.
DateObject(day) == [k |-> "date", day |-> day]

Coerced(v) == [threw |-> FALSE, value |-> v]
CoercionError == [threw |-> TRUE, value |-> Undefined]

DateStrings == {"1970-01-01", "2007-12-03"}

\* GraphQLDate.serialize: a Date object becomes its full-date string, a valid
\* date string is kept, anything else is a TypeError.
GraphQLDateSerialize(v) ==
    IF v.k = "date" THEN Coerced(Scalar(v.day))
    ELSE IF v.k = "scalar" /\ v.v \in DateStrings THEN Coerced(v)
    ELSE CoercionError

\* GraphQLDate.parseValue: a valid date string becomes a Date object, anything
\* else is a TypeError.
GraphQLDateParseValue(v) ==
    IF v.k = "scalar" /\ v.v \in DateStrings THEN Coerced(DateObject(v.v))
    ELSE CoercionError

\* type.serialize(v) and type.parseValue(v)
serialize(type, v) ==
    IF type.coercion = "GraphQLDate" THEN GraphQLDateSerialize(v) ELSE Coerced(v)

parseValue(type, v) ==
    IF type.coercion = "GraphQLDate" THEN GraphQLDateParseValue(v) ELSE Coerced(v)

ScalarInputs ==
    {DateObject("1970-01-01"), Scalar("1970-01-01"), Scalar("2007-12-03"),
     Scalar("Name"), Scalar("0")}

\* The custom scalars of the merged schema, and for each the source scalar it
\* was recreated from: the first candidate of its name.
MergedScalars == {t \in Range(merged.types) : isScalarType(t)}

SourceScalar(n) ==
    DeclaredType(CHOOSE i \in Declaring(n) : \A j \in Declaring(n) : i <= j, n)

SerializeValue ==
    /\ pc = "done"
    /\ \E t \in MergedScalars, v \in ScalarInputs :
          coerced' = [fn |-> "serialize", type |-> t.name, input |-> v,
                      merged |-> serialize(t, v),
                      source |-> serialize(SourceScalar(t.name), v)]
    /\ UNCHANGED <<mergeVars, execVars, reducedSchema, rightIndex, fanned, joined>>

ParseValue ==
    /\ pc = "done"
    /\ \E t \in MergedScalars, v \in ScalarInputs :
          coerced' = [fn |-> "parseValue", type |-> t.name, input |-> v,
                      merged |-> parseValue(t, v),
                      source |-> parseValue(SourceScalar(t.name), v)]
    /\ UNCHANGED <<mergeVars, execVars, reducedSchema, rightIndex, fanned, joined>>

NextScalar == Next \/ SerializeValue \/ ParseValue

SpecScalar == Init /\ [][NextScalar]_vars

\* The recreated scalar serializes and parses every value as its source scalar
\* does.  Violated: the Date of barSchema turns a Date object into
\* "1970-01-01" and the string back into a Date object, the recreated Date
\* returns both as they are.
C17_ScalarBehaviourCopied ==
    coerced # NoCoercion => coerced.merged = coerced.source

\* C17: for every custom scalar type S of a source schema and every value v,
\* the recreated scalar of the merged schema passes v through unchanged:
\* merged.serialize(v) = v and merged.parseValue(v) = v, without the
\* conversion and without the TypeError of S.serialize and S.parseValue.
C17_ScalarPassThrough ==
    coerced # NoCoercion => coerced.merged = Coerced(coerced.input)

\* A Date object given to the recreated Date of barSchema.
C17_Witness ==
    /\ coerced # NoCoercion
    /\ coerced.fn = "serialize"
    /\ coerced.type = "Date"
    /\ coerced.input = DateObject("1970-01-01")
    /\ coerced.merged = Coerced(DateObject("1970-01-01"))
    /\ coerced.source = Coerced(Scalar("1970-01-01"))

-----------------------------------------------------------------------------
(* Sibling fields that each wait for a delegated call                      *)

IsPrefix(p, q) == Len(p) <= Len(q) /\ SubSeq(q, 1, Len(p)) = p

\* What the field that issued the call settles to, from the call alone.
OwnOutcome(call) ==
    LET r == delegateToSchema(call, world)
    IN IF r.threw THEN [failed |-> TRUE, value |-> Null]
       ELSE [failed |-> FALSE, value |-> unwrap(r.value, call)]

\* The field that issued the call has settled to the outcome of its own call:
\* to null with an error at its path when the call failed, to the value the
\* call returned otherwise.
SettledToOwnOutcome(call) ==
    \E e \in results :
        /\ e.path = call.by
        /\ IF OwnOutcome(call).failed
           THEN e.kind = "null" /\ \E err \in errors : err.path = call.by
           ELSE Matches(e, OwnOutcome(call).value)

\* A step in which the promise of p settles touches the response at and
\* below p's field only and leaves every other promise pending.
SettlesAlone(p) ==
    /\ pending \ {p} \subseteq pending'
    /\ calls' = calls
    /\ results \subseteq results'
    /\ errors \subseteq errors'
    /\ \A e \in results' \ results : IsPrefix(p.path, e.path)
    /\ \A err \in errors' \ errors : IsPrefix(p.path, err.path)

-----------------------------------------------------------------------------
(* The directive-based variant: @merge(query) and @discard                 *)
(* (the implementation kept after the tests in merge-remote-schemas.spec.ts) *)

\* getUndiscardedFields
getUndiscardedFields(type) ==
    SelectSeq(type.fields, LAMBDA f : ~HasDirective(f, "discard"))

\* The query argument of the type's @merge, "" when the type has no @merge.
mergeQueryOf(type) ==
    IF HasDirective(type, "merge")
    THEN (CHOOSE d \in Range(DirectivesOf(type)) : d.name = "merge").query
    ELSE ""

\* The closure the variant's createFieldResolver returns.
createFieldResolverByDirective(schema, mergeQuery) ==
    [kind |-> "directive", schema |-> schema, mergeQuery |-> mergeQuery]

\* The variant's createFieldMapConfig: argument types are kept as they are.
createFieldMapConfigByDirective(fields, nt, schema, root, mergeQuery) ==
    [i \in 1..Len(fields) |->
        [name |-> fields[i].name,
         type |-> IF HasName(nt, getNamedType(fields[i].type).name)
                  THEN createFieldType(fields[i].type, nt)
                  ELSE fields[i].type,
         args |-> fields[i].args,
         resolve |-> IF root THEN createRootResolver(schema)
                     ELSE createFieldResolverByDirective(schema, mergeQuery),
         deprecationReason |-> fields[i].deprecationReason,
         description |-> fields[i].description,
         directives |-> DirectivesOf(fields[i])]]

\* for (const key of Object.keys(rightFields)) if (leftFields[key]) throw
HasDuplicateField(left, right) ==
    \E f \in Range(getUndiscardedFields(right)) :
        HasName(getUndiscardedFields(left), f.name)

\* The object built by the variant's mergeObjectTypes (root = FALSE) and
\* mergeRootTypes (root = TRUE): the left fields, then the right ones.
mergedObjectByDirective(left, right, leftSchema, rightSchema, nt, root) ==
    WithDirectives(
        ObjectType("merged", right.name,
            createFieldMapConfigByDirective(getUndiscardedFields(left), nt,
                                            leftSchema, root, mergeQueryOf(left))
              \o createFieldMapConfigByDirective(getUndiscardedFields(right), nt,
                                                 rightSchema, root, mergeQueryOf(right)),
            <<>>,
            IF right.description # "" THEN right.description ELSE left.description),
        DirectivesOf(right))

recreateObjectType(type, schema, nt, root) ==
    WithDirectives(
        ObjectType("merged", type.name,
            createFieldMapConfigByDirective(getUndiscardedFields(type), nt,
                                            schema, root, ""),
            <<>>, type.description),
        DirectivesOf(type))

\* The filter of both loops over the type maps; in the loop over the right
\* map the roots excluded are those of the left map, and the keys of the left
\* map are skipped.
IsListedType(type) ==
    /\ Slice2(type.name) # "__"
    /\ ~(isScalarType(type) /\ isSpecifiedScalarType(type))

LeftListed(left) ==
    SelectSeq(getTypeMap(left),
              LAMBDA t : /\ t.name \notin {"Query", "Mutation", "Subscription"}
                         /\ IsListedType(t))

RightListed(left, right) ==
    SelectSeq(getTypeMap(right),
              LAMBDA t : /\ ~HasName(getTypeMap(left), t.name)
                         /\ IsListedType(t))

\* What the variant throws while it merges left and right: a root field or a
\* field of a shared object type declared twice, a shared object type with a
\* missing @merge, an object type named like a non-object type.
ThrowsByDirective(left, right) ==
    \/ \E which \in {"query", "mutation", "subscription"} :
          /\ left[which] # NoType
          /\ right[which] # NoType
          /\ HasDuplicateField(left[which], right[which])
    \/ \E t \in Range(LeftListed(left)) :
          /\ isObjectType(t)
          /\ HasName(getTypeMap(right), t.name)
          /\ LET r == Lookup(getTypeMap(right), t.name)
             IN \/ ~isObjectType(r)
                \/ ~HasDirective(t, "merge")
                \/ ~HasDirective(r, "merge")
                \/ HasDuplicateField(t, r)

\* new GraphQLSchema: every name of the type map belongs to one object.
HasUniqueNames(q, m, s, types) ==
    \A t \in Range(types) :
        t.name \notin {r.name : r \in {q, m, s} \ {NoType}}

\* One call of the callback of schemas.reduce.
mergePairByDirective(left, right) ==
    LET listed == LeftListed(left) \o RightListed(left, right)
        nt == SelectSeq(listed, LAMBDA t : isObjectType(t))
        root(which) ==
            IF right[which] # NoType /\ left[which] # NoType
            THEN mergedObjectByDirective(left[which], right[which],
                                         left.id, right.id, nt, TRUE)
            ELSE IF right[which] # NoType
            THEN recreateObjectType(right[which], right.id, nt, TRUE)
            ELSE IF left[which] # NoType
            THEN recreateObjectType(left[which], left.id, nt, TRUE)
            ELSE NoType
        leftTypes ==
            [i \in 1..Len(LeftListed(left)) |->
                LET t == LeftListed(left)[i]
                IN IF ~isObjectType(t) THEN t
                   ELSE IF HasName(getTypeMap(right), t.name)
                   THEN mergedObjectByDirective(t, Lookup(getTypeMap(right), t.name),
                                                left.id, right.id, nt, FALSE)
                   ELSE recreateObjectType(t, left.id, nt, FALSE)]
        rightTypes ==
            [i \in 1..Len(RightListed(left, right)) |->
                LET t == RightListed(left, right)[i]
                IN IF isObjectType(t) THEN recreateObjectType(t, right.id, nt, FALSE)
                   ELSE t]
        types == leftTypes \o rightTypes
    IN IF ThrowsByDirective(left, right)
          \/ ~HasUniqueNames(root("query"), root("mutation"), root("subscription"),
                             types)
       THEN [threw |-> TRUE, schema |-> MergeError]
       ELSE [threw |-> FALSE,
             schema |-> GraphQLSchema("merged", root("query"), root("mutation"),
                                      root("subscription"), types)]

InitDirective ==
    /\ schemas \in SeqsUpTo(DirectiveLib, MaxSchemas) \ {<<>>}
    /\ localSchema = NoSchema
    /\ pc = "reduce"
    /\ query = NoType
    /\ mutation = NoType
    /\ typeNameToTypes = <<>>
    /\ newTypes = <<>>
    /\ cursor = 1
    /\ merged = NoSchema
    /\ operation = NoOperation
    /\ world = NoWorld
    /\ tasks = <<>>
    /\ pending = {}
    /\ results = {}
    /\ errors = {}
    /\ calls = <<>>
    /\ coerced = NoCoercion
    /\ reducedSchema = schemas[1]
    /\ rightIndex = 2
    /\ fanned = <<>>
    /\ joined = NoJoin

\* schemas.reduce((left, right) => ...): the callback, on the accumulator and
\* the next schema.
ReduceSchemas ==
    /\ pc = "reduce"
    /\ rightIndex <= Len(schemas)
    /\ LET r == mergePairByDirective(reducedSchema, schemas[rightIndex])
       IN IF r.threw
          THEN /\ pc' = "failed"
               /\ merged' = MergeError
               /\ UNCHANGED <<reducedSchema, rightIndex>>
          ELSE /\ reducedSchema' = r.schema
               /\ rightIndex' = rightIndex + 1
               /\ UNCHANGED <<pc, merged>>
    /\ UNCHANGED <<schemas, localSchema, query, mutation, typeNameToTypes,
                   newTypes, cursor, coerced, fanned, joined>>
    /\ UNCHANGED execVars

\* return reducedSchema
ReturnReduced ==
    /\ pc = "reduce"
    /\ rightIndex > Len(schemas)
    /\ merged' = reducedSchema
    /\ pc' = "done"
    /\ UNCHANGED <<schemas, localSchema, query, mutation, typeNameToTypes,
                   newTypes, cursor>>
    /\ UNCHANGED execVars
    /\ UNCHANGED otherVars

\* The field resolver of the variant: a truthy property of the parent is
\* returned, anything else is delegated.
fieldResolverByDirective(schema, mergeQuery, parent, args, info) ==
    LET responseKey == responseKeyOf(info)
        result == IF Truthy(parent) THEN Get(parent, responseKey) ELSE parent
    IN IF Truthy(result) THEN Returned(result)
       ELSE Delegated(delegation(schema, mergeQuery, parent, args, info))

CallResolverByDirective(resolve, typeName, parent, args, info, w) ==
    IF resolve.kind = "root" THEN rootResolver(resolve.schema, args, info)
    ELSE IF resolve.kind = "directive"
    THEN fieldResolverByDirective(resolve.schema, resolve.mergeQuery, parent, args,
                                  info)
    ELSE originalResolver(resolve.schema, typeName, parent, args, info, w)

\* graphql(schema, query) on the schema the variant returned, when its
\* resolvers delegate to source schemas (at most two schemas were merged).
ExecuteByDirective ==
    /\ Len(schemas) <= 2
    /\ Execute

ResolveByDirective ==
    /\ tasks # <<>>
    /\ LET t == Head(tasks)
           field == FieldOf(merged, t)
           r == CallResolverByDirective(field.resolve, t.parentType, t.parent,
                                        ArgumentValues(field, t.fieldNodes[1]),
                                        InfoOf(t, operation), world)
           done == IF r.kind = "value"
                   THEN completeValue(merged, field.type, r.value, t.fieldNodes,
                                      t.path, FALSE)
                   ELSE IF r.kind = "throw"
                   THEN failedField(field.type, t.path, r.message)
                   ELSE NoEffect
       IN /\ tasks' = done.tasks \o Tail(tasks)
          /\ results' = results \cup done.entries
          /\ errors' = errors \cup done.errors
          /\ calls' = calls \o r.request
          /\ pending' = pending \cup
                {[path |-> t.path, type |-> field.type,
                  fieldNodes |-> t.fieldNodes, request |-> r.request[i]] :
                    i \in 1..Len(r.request)}
    /\ UNCHANGED <<operation, world>>
    /\ UNCHANGED mergeVars
    /\ UNCHANGED otherVars

\* request.then(result => result[responseKey]) under @merge, request itself
\* otherwise: what the field of p completes to once its request settled with r.
settledByDirective(schema, p, r) ==
    IF r.threw
    THEN failedField(p.type, p.path, r.message)
    ELSE IF p.request.unwrap = ""
    THEN completeValue(schema, p.type, r.value, p.fieldNodes, p.path, FALSE)
    ELSE IF IsNullish(r.value)
    THEN failedField(p.type, p.path, TypeErrorMessage)
    ELSE completeValue(schema, p.type, Get(r.value, p.request.unwrap),
                       p.fieldNodes, p.path, FALSE)

\* The tasks, entries and errors of a completed field enter the execution.
Completes(done) ==
    /\ tasks' = done.tasks
    /\ results' = results \cup done.entries
    /\ errors' = errors \cup done.errors

DeliverByDirective ==
    /\ tasks = <<>>
    /\ \E p \in pending :
          /\ pending' = pending \ {p}
          /\ Completes(settledByDirective(merged, p,
                                          delegateToSchema(p.request, world)))
    /\ UNCHANGED <<operation, world, calls>>
    /\ UNCHANGED mergeVars
    /\ UNCHANGED otherVars

NextDirective ==
    \/ ReduceSchemas
    \/ ReturnReduced
    \/ ExecuteByDirective
    \/ ResolveByDirective
    \/ DeliverByDirective

SpecDirective == InitDirective /\ [][NextDirective]_vars

-----------------------------------------------------------------------------
(* C19 *)

\* The object types of a schema, its root types included.
ObjectTypesOf(s) ==
    {t \in Range(getTypeMap(s)) \cup ({s.query, s.mutation, s.subscription} \ {NoType}) :
        isObjectType(t)}

\* The selections sel, made on the type named typeName of the source schema
\* s, select a field that s annotates @discard.
RECURSIVE SelectsDiscarded(_, _, _)
SelectsDiscarded(s, typeName, sel) ==
    \E i \in 1..Len(sel) :
        \E t \in {x \in ObjectTypesOf(s) : x.name = typeName} :
            /\ HasName(t.fields, sel[i].name)
            /\ LET f == Lookup(t.fields, sel[i].name)
               IN \/ HasDirective(f, "discard")
                  \/ SelectsDiscarded(s, getNamedType(f.type).name, sel[i].sel)

RootNameOf(s, op) == IF op = "mutation" THEN s.mutation.name ELSE s.query.name

\* C19: in the directive-based variant no field annotated @discard in a source
\* type is in the field map of a merged type, and no delegated query selects,
\* in the source schema it is sent to, a field annotated @discard there.
C19_DiscardedNeverSelected ==
    /\ pc = "done" =>
          \A t \in ObjectTypesOf(merged) :
              \A f \in Range(t.fields) : ~HasDirective(f, "discard")
    /\ \A i \in 1..Len(calls) :
          LET s == SchemaById(calls[i].schema)
          IN ~SelectsDiscarded(s, RootNameOf(s, calls[i].operation),
                               delegatedDocument(calls[i]))

-----------------------------------------------------------------------------
(* The root fan-out variant: a root field declared by several schemas is   *)
(* delegated to each of them, and the results are merged (lodash mergeWith) *)

\* The property keys of an array: "0", "1", ...
IndexKey(i) == <<"0", "1", "2", "3", "4", "5", "6", "7">>[i]

isArray(v) == v.k = "list"

\* lodash isObject
isObject(v) == v.k \in {"object", "list"}

\* The keys of an object, one after the other.
RECURSIVE ownKeys(_)
ownKeys(K) ==
    IF K = {} THEN <<>>
    ELSE LET key == CHOOSE x \in K : TRUE
         IN <<key>> \o ownKeys(K \ {key})

\* keysIn(source): the indices of an array in order, the keys of an object.
keysIn(v) ==
    IF isArray(v) THEN [i \in 1..Len(v.items) |-> IndexKey(i)]
    ELSE IF v.k = "object" THEN ownKeys(DOMAIN v.f)
    ELSE <<>>

\* object[key]
Prop(v, key) ==
    IF isArray(v)
    THEN IF \E i \in 1..Len(v.items) : IndexKey(i) = key
         THEN v.items[CHOOSE i \in 1..Len(v.items) : IndexKey(i) = key]
         ELSE Undefined
    ELSE Get(v, key)

\* object[key] = value
SetProp(v, key, value) ==
    IF isArray(v)
    THEN IF \E i \in 1..Len(v.items) : IndexKey(i) = key
         THEN [v EXCEPT !.items[CHOOSE i \in 1..Len(v.items) : IndexKey(i) = key] = value]
         ELSE [v EXCEPT !.items = Append(@, value)]
    ELSE [v EXCEPT !.f = (key :> value) @@ @]

\* x.concat(y)
concat(x, y) == ListV(x.items \o (IF isArray(y) THEN y.items ELSE <<y>>))

mergeWithConcat(objValue, srcValue) ==
    IF isArray(objValue) THEN concat(objValue, srcValue) ELSE Undefined

\* lodash assignMergeValue
assignMergeValue(object, key, value) ==
    IF value # Undefined THEN SetProp(object, key, value) ELSE object

\* lodash baseMerge with mergeWithConcat as its customizer: every key of
\* source is merged into object; baseMergeDeep is the branch of a source
\* value that is an object or an array.
RECURSIVE baseMerge(_, _), baseMergeFrom(_, _, _)
baseMerge(object, source) == baseMergeFrom(object, source, keysIn(source))

baseMergeFrom(object, source, keys) ==
    IF keys = <<>> THEN object
    ELSE LET key == Head(keys)
             srcValue == Prop(source, key)
             objValue == Prop(object, key)
             custom == mergeWithConcat(objValue, srcValue)
             newValue ==
                 IF custom # Undefined THEN custom
                 ELSE IF ~isObject(srcValue) THEN srcValue
                 ELSE IF isArray(srcValue)
                 THEN baseMerge(IF isArray(objValue) THEN objValue ELSE ListV(<<>>),
                                srcValue)
                 ELSE baseMerge(IF isObject(objValue) THEN objValue ELSE Obj(<<>>),
                                srcValue)
         IN baseMergeFrom(assignMergeValue(object, key, newValue), source, Tail(keys))

\* mergeWith(object, source, mergeWithConcat): object = Object(object), and a
\* falsy source is skipped.
mergeWith(object, source) ==
    LET target == IF IsNullish(object) THEN Obj(<<>>) ELSE object
    IN IF Truthy(source) THEN baseMerge(target, source) ELSE target

\* results.reduce((left, right) => mergeWith(right, left, mergeWithConcat), [])
RECURSIVE reduceResults(_, _)
reduceResults(left, rs) ==
    IF rs = <<>> THEN left
    ELSE reduceResults(mergeWith(Head(rs), left), Tail(rs))

\* What a source schema answers for the root field: an object or null for
\* foo, a list for foos.
FanResults(fieldName) ==
    IF fieldName = "foo"
    THEN {Null,
          Obj([id |-> Scalar("foo"), name |-> Scalar("Name")]),
          Obj([id |-> Scalar("foo"), name |-> Scalar("Other"),
               bars |-> ListV(<<Obj([id |-> Scalar("bar")])>>)]),
          Obj([id |-> Scalar("foo"),
               bars |-> ListV(<<Obj([id |-> Scalar("baz")])>>)])}
    ELSE {ListV(<<>>),
          ListV(<<Obj([id |-> Scalar("foo")])>>),
          ListV(<<Obj([id |-> Scalar("bar")]), Obj([id |-> Scalar("baz")])>>)}

FanLib == {SchemaA, SchemaB, SchemaK}

InitFanOut ==
    /\ schemas \in SeqsUpTo(FanLib, MaxSchemas) \ {<<>>}
    /\ localSchema = NoSchema
    /\ pc = "done"
    /\ query = NoType
    /\ mutation = NoType
    /\ typeNameToTypes = <<>>
    /\ newTypes = <<>>
    /\ cursor = 1
    /\ merged = NoSchema
    /\ operation = NoOperation
    /\ world = NoWorld
    /\ tasks = <<>>
    /\ pending = {}
    /\ results = {}
    /\ errors = {}
    /\ calls = <<>>
    /\ coerced = NoCoercion
    /\ reducedSchema = NoSchema
    /\ rightIndex = 1
    /\ fanned = <<>>
    /\ joined = NoJoin

\* The root resolver is called: Promise.all(schemas.map(schema =>
\* delegateToSchema({schema, fieldName: info.fieldName, ...}))).
FanOut ==
    /\ fanned = <<>>
    /\ \E fieldName \in {"foo", "foos"} :
          fanned' = [i \in 1..Len(schemas) |->
                        [schema |-> schemas[i].id, fieldName |-> fieldName,
                         state |-> "pending", value |-> Undefined]]
    /\ UNCHANGED <<mergeVars, execVars, coerced, reducedSchema, rightIndex, joined>>

\* One delegated call settles, in any order: with the answer of its schema,
\* or rejected.
SettleCall ==
    /\ \E i \in 1..Len(fanned) :
          /\ fanned[i].state = "pending"
          /\ \/ \E v \in FanResults(fanned[i].fieldName) :
                   fanned' = [fanned EXCEPT ![i].state = "fulfilled", ![i].value = v]
             \/ fanned' = [fanned EXCEPT ![i].state = "rejected"]
    /\ UNCHANGED <<mergeVars, execVars, coerced, reducedSchema, rightIndex, joined>>

\* Promise.all fulfils once every call has: then(results => results.reduce(...))
JoinResults ==
    /\ joined = NoJoin
    /\ fanned # <<>>
    /\ \A i \in 1..Len(fanned) : fanned[i].state = "fulfilled"
    /\ joined' = [state |-> "fulfilled",
                  value |-> reduceResults(ListV(<<>>),
                                          [i \in 1..Len(fanned) |-> fanned[i].value])]
    /\ UNCHANGED <<mergeVars, execVars, coerced, reducedSchema, rightIndex, fanned>>

\* Promise.all rejects as soon as one call is rejected.
RejectJoin ==
    /\ joined = NoJoin
    /\ \E i \in 1..Len(fanned) : fanned[i].state = "rejected"
    /\ joined' = [state |-> "rejected", value |-> Undefined]
    /\ UNCHANGED <<mergeVars, execVars, coerced, reducedSchema, rightIndex, fanned>>

NextFanOut == FanOut \/ SettleCall \/ JoinResults \/ RejectJoin

SpecFanOut == InitFanOut /\ [][NextFanOut]_vars

(* C20 *)

\* The deep merge of an earlier and a later result as the fan-out is
\* described: arrays concatenated, object keys merged, the later value kept
\* where the two differ.
RECURSIVE DeepMerge(_, _)
DeepMerge(earlier, later) ==
    IF isArray(earlier) /\ isArray(later)
    THEN ListV(earlier.items \o later.items)
    ELSE IF earlier.k = "object" /\ later.k = "object"
    THEN Obj([key \in DOMAIN earlier.f \cup DOMAIN later.f |->
                 IF key \notin DOMAIN later.f THEN earlier.f[key]
                 ELSE IF key \notin DOMAIN earlier.f THEN later.f[key]
                 ELSE DeepMerge(earlier.f[key], later.f[key])])
    ELSE later

RECURSIVE DeepMergeAll(_, _)
DeepMergeAll(acc, rs) ==
    IF rs = <<>> THEN acc ELSE DeepMergeAll(DeepMerge(acc, Head(rs)), Tail(rs))

FannedValues == [i \in 1..Len(fanned) |-> fanned[i].value]

\* C20: the root resolver calls each schema declaring the root field once,
\* produces its result only when all the calls have completed, and the result
\* is the deep merge of the results in schema order: arrays concatenated,
\* object keys merged, the later schema's value kept on a conflict.
C20_FanOutDeepMergeInOrder ==
    /\ fanned # <<>> =>
          /\ Len(fanned) = Len(schemas)
          /\ \A i \in 1..Len(fanned) : fanned[i].schema = schemas[i].id
    /\ joined.state = "fulfilled" =>
          /\ \A i \in 1..Len(fanned) : fanned[i].state = "fulfilled"
          /\ joined.value = DeepMergeAll(Head(FannedValues), Tail(FannedValues))

-----------------------------------------------------------------------------
(* C21 *)

\* n is declared, and as a non-Object type by every schema declaring it.
IsNonObjectName(n) ==
    /\ Declaring(n) # {}
    /\ \A i \in Declaring(n) : DeclaredType(i, n).kind # "OBJECT"

\* The type n of the first schema, in the effective order, that declares it.
FirstCandidate(n) ==
    DeclaredType(CHOOSE i \in Declaring(n) : \A j \in Declaring(n) : i <= j, n)

-----------------------------------------------------------------------------
(* C22 *)

\* The fields named f of the sources' root types of one kind ("query" or
\* "mutation"), in the effective order.
SourceRootFields(root, f) ==
    LET idx == SetToSortedSeq({i \in 1..Len(Effective) :
                                  /\ Effective[i][root] # NoType
                                  /\ f \in FieldNamesOf(Effective[i][root])})
    IN [k \in 1..Len(idx) |-> Lookup(Effective[idx[k]][root].fields, f)]

ArgsShape(args) ==
    {[name |-> args[k].name, type |-> PrintType(args[k].type)] : k \in 1..Len(args)}

\* The attribute of the first of fields that has a value other than empty.
FirstNonEmpty(fields, attribute, empty) ==
    LET having == SelectSeq(fields, LAMBDA x : x[attribute] # empty)
    IN IF having = <<>> THEN empty ELSE having[1][attribute]

MergedRootFields(root) ==
    IF merged[root] = NoType THEN {} ELSE Range(merged[root].fields)

\* C22 as stated: type, arguments and description of a merged root field each
\* come from the first source with a non-empty value, so the arguments of a
\* later source replace an empty argument list of the first.
C22_FirstNonEmptyAttribute ==
    pc = "done" =>
        \A root \in {"query", "mutation"} :
            \A f \in MergedRootFields(root) :
                LET sources == SourceRootFields(root, f.name)
                IN /\ PrintType(f.type) = PrintType(sources[1].type)
                   /\ ArgsShape(f.args) = ArgsShape(FirstNonEmpty(sources, "args", <<>>))
                   /\ f.description = FirstNonEmpty(sources, "description", "")

\* C22: the type and the arguments of a merged root field are those of the
\* first source declaring it, an empty argument list included; its
\* description is that of the first source with a non-empty description.
C22_ArgsOfFirstSource ==
    pc = "done" =>
        \A root \in {"query", "mutation"} :
            \A f \in MergedRootFields(root) :
                LET sources == SourceRootFields(root, f.name)
                IN /\ PrintType(f.type) = PrintType(sources[1].type)
                   /\ ArgsShape(f.args) = ArgsShape(sources[1].args)
                   /\ f.description = FirstNonEmpty(sources, "description", "")

C22_Witness ==
    /\ pc = "done"
    /\ \E f \in MergedRootFields("query") :
          LET sources == SourceRootFields("query", f.name)
          IN /\ Len(sources) >= 2
             /\ sources[1].args = <<>>
             /\ sources[2].args # <<>>
             /\ f.args = <<>>

-----------------------------------------------------------------------------
(* C23 *)

\* The positions, in the effective order, of the schemas that have the root
\* type root ("query" or "mutation").
HavingRoot(root) == {i \in 1..Len(Effective) : Effective[i][root] # NoType}

-----------------------------------------------------------------------------
(* C24 *)

\* The partial error e of a delegated call surfaces in the response: with its
\* own message, at the path it belongs to or, when the value there was
\* nulled, at the nearest ancestor that is in the response.
Surfaces(call, e) ==
    \E err \in errors :
        /\ err.message = e.message
        /\ IsPrefix(err.path, ResponsePath(call, e.path))

\* C24: the errors a parent carries from a delegated execution are
\* re-attached, path cut by one segment, onto the object or the list the field
\* delegation resolver returns, and surface at the descendant they belong
\* to, also in a list whose erroring element is null; the resolver does not
\* fail while attaching. Stated of the merges with no local schema.
C24_SubErrorsReattached ==
    (Finished /\ localSchema = NoSchema) =>
        /\ \A err \in errors : err.message # TypeErrorMessage
        /\ \A i \in 1..Len(calls) :
              LET ex == delegatedExecution(calls[i], world)
              IN (calls[i].unwrap = "" /\ IsPartial(ex, calls[i])) =>
                    \A k \in 1..Len(ex.errors) : Surfaces(calls[i], ex.errors[k])

-----------------------------------------------------------------------------
(* C25 *)

\* The names of the interfaces the candidates of the object type n declare,
\* candidate after candidate in the effective order.
DeclaredInterfaces(n) ==
    LET idx == SetToSortedSeq(Declaring(n))
    IN Flatten([k \in 1..Len(idx) |->
                   [j \in 1..Len(DeclaredType(idx[k], n).interfaces) |->
                       DeclaredType(idx[k], n).interfaces[j].name]])

\* The names of a sequence, each at its first occurrence only.
FirstOccurrences(names) ==
    LET keep == {i \in 1..Len(names) : \A j \in 1..(i - 1) : names[j] # names[i]}
        idx == SetToSortedSeq(keep)
    IN [k \in 1..Len(idx) |-> names[idx[k]]]

\* C25: the interfaces of a merged object type are those its candidates
\* declare, by name, each once and in the order of first occurrence, and
\* each is the type of the merged table when the table has that name.
C25_InterfacesUnion ==
    pc = "done" =>
        \A n \in AllTypeNames :
            IsSharedObjectName(n) =>
                LET t == Lookup(merged.types, n)
                IN /\ [k \in 1..Len(t.interfaces) |-> t.interfaces[k].name]
                        = FirstOccurrences(DeclaredInterfaces(n))
                   /\ \A k \in 1..Len(t.interfaces) :
                         HasName(merged.types, t.interfaces[k].name)
                             => t.interfaces[k].src = "merged"

C25_Witness ==
    /\ pc = "done"
    /\ \E n \in AllTypeNames :
          /\ IsSharedObjectName(n)
          /\ Len(DeclaredInterfaces(n)) = 3
          /\ Len(Lookup(merged.types, n).interfaces) = 2
          /\ \A k \in 1..2 : Lookup(merged.types, n).interfaces[k].src = "merged"

-----------------------------------------------------------------------------
(* C26 *)

\* The entry e of a type map is the very object its schema has for a root.
IsRootTypeObject(e) ==
    e.type \in {SchemaById(e.schema).query, SchemaById(e.schema).mutation,
                SchemaById(e.schema).subscription} \ {NoType}

\* What the index step is to skip: introspection types, built-in scalars and
\* root type objects.
IsToSkip(e) ==
    \/ Slice2(e.type.name) = "__"
    \/ isScalarType(e.type) /\ e.type.specified
    \/ IsRootTypeObject(e)

\* The candidate lists the loop over the type table has been through.
Processed ==
    IF pc \in {"types", "done"} THEN 1..(cursor - 1)
    ELSE IF pc = "failed" THEN 1..(cursor - 2)
    ELSE {}

\* C26: an entry of a source's type map is left out of the merged type table
\* exactly when it is an introspection type, a built-in scalar or the object
\* that is one of its schema's root types; no ordinary type is left out for
\* its name.  Violated: [M], whose ordinary object type is called Mutation.
C26_SkippedExactlyBuiltinsAndRoots ==
    \A k \in Processed :
        \A c \in Range(typeNameToTypes[k].candidates) :
            ~HasName(newTypes, typeNameToTypes[k].name) <=> IsToSkip(c)

-----------------------------------------------------------------------------
(* C27 *)

\* The field f of the merged type n is resolved as line 207 has it for the
\* schema that declares it first: the local schema's own resolver when that
\* schema is the local one, a delegation to that schema under the entry point
\* of n otherwise.
ResolverOfFirstDeclaring(n, f) ==
    LET first == FirstDeclaring(n, f.name)
        source == Lookup(DeclaredType(first, n).fields, f.name)
    IN IF localSchema # NoSchema /\ first = 1
       THEN /\ FieldShape(f) = FieldShape(source)
            /\ f.resolve = source.resolve
            /\ f.resolve.kind = "original"
       ELSE f.resolve = [kind |-> "delegate", schema |-> Effective[first].id,
                         mergeQuery |-> camelCase(n)]

\* C27: the local schema comes first in the effective order: a field of a
\* shared non-root object type that the local schema declares keeps the
\* local definition and its original resolver, whoever else declares it; a
\* field whose first declaring schema is remote gets the delegation resolver
\* of that schema and of the type's entry-point name.
C27_LocalFirstThenRemote ==
    pc = "done" =>
        \A n \in AllTypeNames :
            IsSharedObjectName(n) =>
                \A f \in Range(Lookup(merged.types, n).fields) :
                    ResolverOfFirstDeclaring(n, f)

\* A merged type with a field the local schema and a remote one declare,
\* kept with its original resolver, next to a field only the remote declares.
C27_Witness ==
    /\ pc = "done"
    /\ localSchema # NoSchema
    /\ \E n \in AllTypeNames :
          /\ IsSharedObjectName(n)
          /\ \E f, g \in Range(Lookup(merged.types, n).fields) :
                /\ \E i \in Declaring(n) :
                      /\ i > 1
                      /\ Effective[i].id # localSchema.id
                      /\ HasName(DeclaredType(i, n).fields, f.name)
                /\ FirstDeclaring(n, f.name) = 1
                /\ f.resolve.kind = "original"
                /\ FirstDeclaring(n, g.name) > 1
                /\ g.resolve.kind = "delegate"
                /\ g.resolve.schema # localSchema.id

-----------------------------------------------------------------------------
(* C28 *)

\* C28: whatever the field delegation resolver sends is a query, below the
\* result of a mutation too: a turn of that resolver adds no call of another
\* kind, and the mutations sent are those of the root fields alone.
C28_FieldDelegationIsQuery ==
    [][/\ IsDelegateTurn =>
            \A i \in (Len(calls) + 1)..Len(calls') : calls'[i].operation = "query"
       /\ \A i \in 1..Len(calls') :
            calls'[i].operation = "mutation" =>
                /\ Len(calls'[i].by) = 1
                /\ calls'[i].unwrap = ""]_vars

\* Foo.bars, absent from the result of updateFoo, was fetched from B by a
\* query while the operation is a mutation.
C28_Witness ==
    /\ Finished
    /\ operation.op = "mutation"
    /\ \E i, j \in 1..Len(calls) :
          /\ calls[i].operation = "mutation"
          /\ Len(calls[i].by) = 1
          /\ calls[j].operation = "query"
          /\ Len(calls[j].by) > 1
          /\ calls[j].unwrap # ""
          /\ IsSettled(calls[j].by)
          /\ EntryAt(calls[j].by).kind # "null"

-----------------------------------------------------------------------------
(* C29 *)

\* C29: every entry-point delegation carries an id argument that is defined
\* and is the id of the parent object, whether or not the client selected
\* id on the parent.  Violated: [A, B] and foo(id: "foo") { name bars { id } },
\* where the object A returns for foo has no id and B is asked foo(id:
\* undefined).
C29_EntryPointIdDefined ==
    \A i \in 1..Len(calls) :
        calls[i].unwrap # "" =>
            /\ ~IsNullish(calls[i].args.id)
            /\ \A e \in results :
                  (/\ e.path = Append(SubSeq(calls[i].by, 1, Len(calls[i].by) - 1), "id")
                   /\ e.kind = "leaf")
                      => e.v = calls[i].args.id

-----------------------------------------------------------------------------
(* C30 *)

\* The reference t, through its List and NonNull wrappers, is to the merged
\* table's object when the table has the name.
RefersToFinal(t) ==
    HasName(merged.types, getNamedType(t).name) => getNamedType(t).src = "merged"

RootFieldsReferToFinal(root) ==
    root # NoType =>
        \A f \in Range(root.fields) :
            /\ RefersToFinal(f.type)
            /\ \A a \in Range(f.args) : RefersToFinal(a.type)

\* C30: the merged roots exist, with their field maps not yet evaluated,
\* while the merged type table is still empty, and they stay as they are
\* during the insertions; in the schema returned every output type and every
\* argument type of a root field that names a type of the table is the
\* table's final object, in whatever order the names were processed.
C30_RootsBuiltFirstReadLast ==
    /\ pc = "index" => newTypes = <<>>
    /\ pc \in {"index", "types", "done", "failed"} =>
          /\ query = mergeRootTypes(RootCandidates(schemas, localSchema, "query"))
          /\ mutation = mergeRootTypes(RootCandidates(schemas, localSchema, "mutation"))
          /\ query # NoType => query.thunk = "root"
          /\ mutation # NoType => mutation.thunk = "root"
    /\ pc = "done" =>
          /\ RootFieldsReferToFinal(merged.query)
          /\ RootFieldsReferToFinal(merged.mutation)

\* A merged schema whose Query has a field of a merged object type and whose
\* Mutation has an argument of a merged input type, both entered in the
\* table after the roots were built.
C30_Witness ==
    /\ pc = "done"
    /\ Len(schemas) = 2
    /\ schemas[1] # schemas[2]
    /\ merged.query # NoType
    /\ merged.mutation # NoType
    /\ \E f \in Range(merged.query.fields) :
          /\ HasName(merged.types, getNamedType(f.type).name)
          /\ Lookup(merged.types, getNamedType(f.type).name).kind = "OBJECT"
          /\ getNamedType(f.type).src = "merged"
    /\ \E f \in Range(merged.mutation.fields) :
          \E a \in Range(f.args) :
              /\ HasName(merged.types, getNamedType(a.type).name)
              /\ Lookup(merged.types, getNamedType(a.type).name).kind = "INPUT_OBJECT"
              /\ getNamedType(a.type).src = "merged"

====
